---- MODULE Spec2Model ----
(***************************************************************************)
(* Call processing pipeline of backend/index.js (first version in the      *)
(* file, lines 1-1143): callWithRetry, splitStereoChannels,                *)
(* transcribeChannel, repairAndTranslate(Mono), transcribeAudio,           *)
(* analyzeCall and analyzeCallById with its processingCalls guard.         *)
(*                                                                         *)
(* Twelve specifications share this module:                                *)
(*   Spec       one invocation of analyzeCallById, stage by stage, every   *)
(*              network call wrapped in the callWithRetry loop;            *)
(*   SpecRetry  one callWithRetry call alone, for every maxRetries and     *)
(*              every sequence of request outcomes;                        *)
(*   SpecGuard  several concurrent invocations of analyzeCallById over a   *)
(*              few call identifiers, sharing processingCalls;             *)
(*   SpecParse  the parsing of one model response by repairAndTranslate,   *)
(*              repairAndTranslateMono and analyzeCall, for every short    *)
(*              response text;                                             *)
(*   SpecSplit  one run of splitStereoChannels, for every call direction   *)
(*              and every outcome of its file and tool operations;         *)
(*   SpecScore  the call_scores row analyzeCallById writes, for every      *)
(*              object of a small family that analyzeCall may return;      *)
(*   SpecTranscript  the transcript transcribeAudio builds of the texts    *)
(*              the recognition and the translation gave it;               *)
(*   SpecFlatten  the dialogue text analyzeCall makes of its arguments;    *)
(*   SpecLive   Spec with the fairness that every external call returns;   *)
(*   SpecTmp    the separations of concurrent invocations, statement by    *)
(*              statement, over the shared temporary directory;            *)
(*   SpecRoutes the /api/analyze and /api/reanalyze routes around          *)
(*              analyzeCallById, with what is stored for each call;        *)
(*   SpecSync   the periodic syncNewCalls runs and the invocations they    *)
(*              start, with the fairness of the timer.                     *)
(* JavaScript runs each continuation (the code between two awaits) to      *)
(* completion, so every action below is one such continuation.             *)
(***************************************************************************)
EXTENDS Integers, Sequences, FiniteSets, TLC

VARIABLES
    \* ---- Spec: one invocation ----
    FFMPEG_AVAILABLE,   \* index.js:167-174, set once at start-up
    pc,                 \* where the invocation's orchestrator is suspended
    sep,                \* what splitStereoChannels did in this invocation
    chan,               \* the two transcribeChannel calls, by role
    seqCall,            \* the callWithRetry call the orchestrator awaits
    monoPayload,        \* the buffer posted by the mono transcription
    rawMono,            \* length class of the mono raw text
    formatted,          \* roles of the blocks of the transcript returned
    dbTranscript,       \* calls.transcript_formatted of this call
    dbScore,            \* call_scores row of this call
    made,               \* requests issued so far, per kind
    failed,             \* stages that threw in this invocation
    extractions,        \* ffmpeg extractions run by splitStereoChannels
    \* ---- SpecRetry: one callWithRetry call ----
    rMax,               \* maxRetries
    rCall,              \* loop state: [st, attempt]
    rMade,              \* number of times requestFn was called
    rDelays,            \* delays waited so far, in order
    rErrs,              \* class of the error before each wait
    rLastErr,           \* the error of the latest failed attempt
    \* ---- SpecGuard: concurrent invocations ----
    processingCalls,    \* index.js:164
    inv,                \* per invocation slot: [pc, callId, did]
    \* ---- SpecParse: one model response ----
    response,           \* [choices, content]: the body of the response
    parsed,             \* what the parsing function made of it
    \* ---- SpecSplit: one run of splitStereoChannels ----
    splitIn,            \* the direction and the outcome of each operation
    splitOut,           \* how the run ended and what it left behind
    \* ---- SpecScore: one upsert of call_scores ----
    analysis,           \* the object analyzeCall returned
    scoreRow,           \* the call_scores row written by the upsert
    \* ---- SpecTranscript: the transcript transcribeAudio builds ----
    heard,              \* the path, the recognised texts, the translation
    transcript,         \* [st, formatted, plain]: what transcribeAudio returns
    \* ---- SpecFlatten: the dialogue text analyzeCall sends ----
    given,              \* the arguments of analyzeCall: transcript, formatted
    dialog,             \* [st, lines]: the lines of dialogText
    \* ---- SpecTmp: separations sharing the temporary directory ----
    tmpFiles,           \* os.tmpdir(): who wrote the file of each name
    separations,        \* per invocation: [pc, ts, created, foreign]
    \* ---- SpecRoutes, SpecSync: the requests around analyzeCallById ----
    db,                 \* per call: audio_url, transcript, call_scores row
    syncing,            \* calls the running syncNewCalls has yet to visit
    recordUrl           \* per call: CALL_RECORD_URL is in the statistics

vars == <<FFMPEG_AVAILABLE, pc, sep, chan, seqCall, monoPayload, rawMono,
          formatted, dbTranscript, dbScore, made, failed,
          extractions,
          rMax, rCall, rMade, rDelays, rErrs, rLastErr,
          processingCalls, inv,
          response, parsed, splitIn, splitOut, analysis, scoreRow,
          heard, transcript, given, dialog,
          tmpFiles, separations, db, syncing, recordUrl>>

pipeVars  == <<FFMPEG_AVAILABLE, pc, sep, chan, seqCall, monoPayload, rawMono,
               formatted, dbTranscript, dbScore, made, failed,
               extractions>>
retryVars == <<rMax, rCall, rMade, rDelays, rErrs, rLastErr>>
guardVars == <<processingCalls, inv>>
parseVars == <<response, parsed>>
splitVars == <<splitIn, splitOut>>
scoreVars == <<analysis, scoreRow>>
textVars  == <<heard, transcript>>
flatVars  == <<given, dialog>>
fnVars    == <<parseVars, splitVars, scoreVars, textVars, flatVars>>
tmpVars   == <<tmpFiles, separations>>
routeVars == <<db, syncing, recordUrl>>

(***************************************************************************)
(* Bounds of the model and constants of the program.                       *)
(***************************************************************************)
MaxRetriesBound == 6        \* SpecRetry tries maxRetries in 0..MaxRetriesBound
NumInvocations  == 3        \* SpecGuard: concurrent invocation slots
MaxMade         == 8        \* cap of the request counters
MaxLen          == 5        \* SpecParse: tokens in a response text
MaxBlocks       == 3        \* SpecFlatten: blocks in a transcript

MAX_RETRIES     == 3        \* maxRetries at every call site
RATE_LIMIT_BASE == 2000
RATE_LIMIT_CAP  == 30000
GENERIC_BASE    == 1000
GENERIC_CAP     == 10000
SHORT_TEXT      == 15

Min(a, b) == IF a <= b THEN a ELSE b

(***************************************************************************)
(* callWithRetry (index.js:58-108).                                        *)
(*                                                                         *)
(* An error is what axios rejects with: a code, whether the message        *)
(* contains 'socket hang up', and the HTTP status of the response (0 when  *)
(* there is no response).                                                  *)
(***************************************************************************)
Err(code, hangup, status) == [code |-> code, hangup |-> hangup, status |-> status]

Errors ==
    { Err("ECONNABORTED", FALSE, 0), Err("ENOTFOUND", FALSE, 0),
      Err("ECONNRESET", FALSE, 0),   Err("NONE", TRUE, 0),
      Err("ERR_BAD_RESPONSE", FALSE, 500), Err("ERR_BAD_RESPONSE", FALSE, 503),
      Err("ERR_BAD_REQUEST", FALSE, 429),
      Err("ERR_BAD_REQUEST", FALSE, 400), Err("ERR_BAD_REQUEST", FALSE, 401),
      Err("ERR_BAD_REQUEST", FALSE, 404), Err("EPIPE", FALSE, 0),
      Err("NONE", FALSE, 0) }

\* Variant of isRetryable: every response with an error status is retried.
isRetryableAnyStatus(error) ==
    \/ error.code = "ECONNABORTED"
    \/ error.code = "ENOTFOUND"
    \/ error.code = "ECONNRESET"
    \/ error.hangup
    \/ error.status >= 400

\* index.js:64-70
isRetryable(error) ==
    \/ error.code = "ECONNABORTED"
    \/ error.code = "ENOTFOUND"
    \/ error.code = "ECONNRESET"
    \/ error.hangup
    \/ error.status = 429
    \/ error.status >= 500

\* index.js:72
isLastAttempt(attempt, maxRetries) == attempt = maxRetries

\* Variant of RateLimitDelay: the generic schedule under the rate-limit cap.
RateLimitDelaySlow(attempt) == Min((2 ^ (attempt - 1)) * GENERIC_BASE, RATE_LIMIT_CAP)

\* index.js:91   Math.min(Math.pow(2, attempt) * 2000, 30000)
RateLimitDelay(attempt) == Min((2 ^ attempt) * RATE_LIMIT_BASE, RATE_LIMIT_CAP)

\* Variant of GenericDelay: the Math.min against the cap is missing.
GenericDelayUncapped(attempt) == (2 ^ (attempt - 1)) * GENERIC_BASE

\* index.js:97   Math.min(Math.pow(2, attempt - 1) * 1000, 10000)
GenericDelay(attempt) == Min((2 ^ (attempt - 1)) * GENERIC_BASE, GENERIC_CAP)

\* index.js:88-103
delayMs(attempt, error) ==
    IF error.status = 429 THEN RateLimitDelay(attempt) ELSE GenericDelay(attempt)

\* index.js:59   the loop header, entered for the first time
CallStart(maxRetries) ==
    IF 1 <= maxRetries
    THEN [st |-> "inflight", attempt |-> 1]
    ELSE [st |-> "undefined", attempt |-> 1]

\* index.js:61   requestFn resolved
CallOnSuccess(c) == [c EXCEPT !.st = "returned"]

\* index.js:62-85   requestFn rejected: rethrow, or go on to the wait
CallOnError(c, maxRetries, error) ==
    IF ~isRetryable(error) \/ isLastAttempt(c.attempt, maxRetries)
    THEN [c EXCEPT !.st = "thrown"]
    ELSE [c EXCEPT !.st = "wait"]

\* Variant of CallAfterWait: the attempt counter is not advanced.
CallAfterWaitNoCount(c, maxRetries) ==
    IF c.attempt <= maxRetries
    THEN [st |-> "inflight", attempt |-> c.attempt]
    ELSE [st |-> "undefined", attempt |-> c.attempt]

\* index.js:105, 59   the timer fired: attempt++, loop test, requestFn again
CallAfterWait(c, maxRetries) ==
    IF c.attempt + 1 <= maxRetries
    THEN [st |-> "inflight", attempt |-> c.attempt + 1]
    ELSE [st |-> "undefined", attempt |-> c.attempt + 1]

IdleCall == [st |-> "idle", attempt |-> 0]

ErrClass(error) == IF error.status = 429 THEN "rateLimit" ELSE "other"

(***************************************************************************)
(* SpecRetry: one callWithRetry(requestFn, rMax) call.                      *)
(***************************************************************************)
RetryIdle ==
    /\ rMax = 0
    /\ rCall = IdleCall
    /\ rMade = 0
    /\ rDelays = <<>>
    /\ rErrs = <<>>
    /\ rLastErr = Err("NONE", FALSE, 0)

\* index.js:61   the request succeeds and its value is returned
RetrySuccess ==
    /\ rCall.st = "inflight"
    /\ rCall' = CallOnSuccess(rCall)
    /\ UNCHANGED <<rMax, rMade, rDelays, rErrs, rLastErr>>
    /\ UNCHANGED <<pipeVars, guardVars, fnVars, tmpVars, routeVars>>

\* index.js:62-105   the request fails: rethrow, or compute the delay and wait
RetryFailure ==
    /\ rCall.st = "inflight"
    /\ \E error \in Errors :
        /\ rCall' = CallOnError(rCall, rMax, error)
        /\ rLastErr' = error
        /\ IF rCall'.st = "wait"
           THEN /\ rDelays' = Append(rDelays, delayMs(rCall.attempt, error))
                /\ rErrs' = Append(rErrs, ErrClass(error))
           ELSE UNCHANGED <<rDelays, rErrs>>
    /\ UNCHANGED <<rMax, rMade>>
    /\ UNCHANGED <<pipeVars, guardVars, fnVars, tmpVars, routeVars>>

\* index.js:105, 59-61   the delay is over: next iteration of the loop
RetryWake ==
    /\ rCall.st = "wait"
    /\ rMade < MaxRetriesBound + MaxMade
    /\ rCall' = CallAfterWait(rCall, rMax)
    /\ rMade' = IF rCall'.st = "inflight" THEN rMade + 1 ELSE rMade
    /\ UNCHANGED <<rMax, rDelays, rErrs, rLastErr>>
    /\ UNCHANGED <<pipeVars, guardVars, fnVars, tmpVars, routeVars>>

NextRetry ==
    \/ RetrySuccess
    \/ RetryFailure
    \/ RetryWake

(***************************************************************************)
(* SpecParse: what repairAndTranslate (index.js:617-655),                  *)
(* repairAndTranslateMono (708-739) and analyzeCall (948-974) make of one  *)
(* response of the model.                                                  *)
(*                                                                         *)
(* The content of a response is a sequence of tokens, white space between  *)
(* them: an opening and a closing brace, "mc" for the members              *)
(* "manager": "M", "client": "C" of an object, "w" for a word of prose,    *)
(* "fence_json" and "fence" for the two fence markers (three backquotes    *)
(* with and without the word json), and the JSON texts null and [].        *)
(***************************************************************************)
Tokens == {"{", "}", "mc", "w", "fence_json", "fence", "null", "[]"}

\* The body of a response: no choices, or the content of the first choice.
Responses ==
    {[choices |-> FALSE, content |-> <<>>]} \cup
    {[choices |-> TRUE, content |-> c] :
        c \in UNION {[1..n -> Tokens] : n \in 0..MaxLen}}

\* A value JSON.parse returns, or its SyntaxError.
JsonValue(kind, members) == [ok |-> TRUE, kind |-> kind, members |-> members]
SyntaxError == [ok |-> FALSE, kind |-> "none", members |-> FALSE]

\* The text of an object: the braces around any number of members.
IsObjectText(text) ==
    /\ Len(text) >= 2
    /\ text[1] = "{"
    /\ text[Len(text)] = "}"
    /\ \A i \in 2..(Len(text) - 1) : text[i] = "mc"

\* JSON.parse (index.js:634, 638, 725, 728, 974)
JSONparse(text) ==
    IF text = <<"null">> THEN JsonValue("null", FALSE)
    ELSE IF text = <<"[]">> THEN JsonValue("array", FALSE)
    ELSE IF IsObjectText(text) THEN JsonValue("object", Len(text) > 2)
    ELSE SyntaxError

\* index.js:633, 724   the two replace calls: every fence marker is removed
stripFences(content) == SelectSeq(content, LAMBDA t : t \notin {"fence_json", "fence"})

\* index.js:636, 727, 966   content.match(/\{[\s\S]*\}/): from the first
\* opening brace to the last closing brace, <<>> when there is no match
braceMatch(content) ==
    LET opens == {i \in 1..Len(content) : content[i] = "{"}
        closes == {i \in 1..Len(content) : content[i] = "}"}
        first == CHOOSE i \in opens : \A j \in opens : i <= j
        last == CHOOSE i \in closes : \A j \in closes : j <= i
    IN  IF opens # {} /\ closes # {} /\ first < last
        THEN SubSeq(content, first, last)
        ELSE <<>>

Returned(fn, value, manager, client) ==
    [fn |-> fn, st |-> "returned", value |-> value,
     manager |-> manager, client |-> client]
Thrown(fn) ==
    [fn |-> fn, st |-> "thrown", value |-> SyntaxError,
     manager |-> "", client |-> ""]
NotParsed ==
    [fn |-> "none", st |-> "pending", value |-> SyntaxError,
     manager |-> "", client |-> ""]

\* index.js:631-645, 722-729   the try and its catch: the value parsed, the
\* fallback object (kind "fallback"), or the SyntaxError thrown in the catch
extractResult(content) ==
    IF JSONparse(stripFences(content)).ok
    THEN JSONparse(stripFences(content))
    ELSE IF braceMatch(content) # <<>>
         THEN JSONparse(braceMatch(content))
         ELSE JsonValue("fallback", FALSE)

\* index.js:647-655, 731-739   the texts read from the result; reading a
\* property of null throws
resultTexts(fn, result, managerRaw, clientRaw) ==
    CASE ~result.ok -> Thrown(fn)
      [] result.ok /\ result.kind = "null" -> Thrown(fn)
      [] result.ok /\ result.kind = "fallback" ->
            Returned(fn, result, managerRaw, clientRaw)
      [] result.ok /\ result.kind = "object" /\ result.members ->
            Returned(fn, result, "M", "C")
      [] OTHER -> Returned(fn, result, "", "")

\* index.js:617-655   repairAndTranslate, from the response on
repairAndTranslateParse(resp) ==
    IF ~resp.choices \/ resp.content = <<>>
    THEN Returned("repairAndTranslate", JsonValue("fallback", FALSE),
                  "adminRawText", "clientRawText")
    ELSE resultTexts("repairAndTranslate", extractResult(resp.content),
                     "adminRawText", "clientRawText")

\* index.js:708-739   repairAndTranslateMono, from the response on
repairAndTranslateMonoParse(resp) ==
    IF ~resp.choices \/ resp.content = <<>>
    THEN Returned("repairAndTranslateMono", JsonValue("fallback", FALSE),
                  "rawText", "")
    ELSE resultTexts("repairAndTranslateMono", extractResult(resp.content),
                     "rawText", "")

\* index.js:948-974   analyzeCall, from the response on
analyzeCallParse(resp) ==
    IF ~resp.choices \/ resp.content = <<>> \/ braceMatch(resp.content) = <<>>
    THEN Thrown("analyzeCall")
    ELSE IF JSONparse(braceMatch(resp.content)).ok
         THEN Returned("analyzeCall", JSONparse(braceMatch(resp.content)), "", "")
         ELSE Thrown("analyzeCall")

ParseIdle ==
    /\ response = [choices |-> FALSE, content |-> <<>>]
    /\ parsed = NotParsed

\* index.js:617-655   the response is handled by repairAndTranslate
ParseRepair ==
    /\ parsed.st = "pending"
    /\ parsed' = repairAndTranslateParse(response)
    /\ UNCHANGED <<response, splitVars, scoreVars, textVars, flatVars>>
    /\ UNCHANGED <<pipeVars, retryVars, guardVars, tmpVars, routeVars>>

\* index.js:708-739   the response is handled by repairAndTranslateMono
ParseRepairMono ==
    /\ parsed.st = "pending"
    /\ parsed' = repairAndTranslateMonoParse(response)
    /\ UNCHANGED <<response, splitVars, scoreVars, textVars, flatVars>>
    /\ UNCHANGED <<pipeVars, retryVars, guardVars, tmpVars, routeVars>>

\* index.js:948-974   the response is handled by analyzeCall
ParseAnalysis ==
    /\ parsed.st = "pending"
    /\ parsed' = analyzeCallParse(response)
    /\ UNCHANGED <<response, splitVars, scoreVars, textVars, flatVars>>
    /\ UNCHANGED <<pipeVars, retryVars, guardVars, tmpVars, routeVars>>

NextParse ==
    \/ ParseRepair
    \/ ParseRepairMono
    \/ ParseAnalysis

(***************************************************************************)
(* SpecSplit: one run of splitStereoChannels (index.js:445-499), which is  *)
(* synchronous from its first line to the end of its finally block.  The   *)
(* inputs are the call direction and the outcome of each operation: the    *)
(* write of the input file, ffprobe and the channel count it reports, the  *)
(* two ffmpeg extractions, the reads of the two outputs, and whether an    *)
(* operation that fails leaves its output file behind.                     *)
(***************************************************************************)
Directions == {"incoming", "outgoing", "undefined", "null", "internal"}
ProbeOutcomes == {"fail", "mono", "stereo"}
ToolOutcomes == {"ok", "fail"}
TempFiles == {"inputPath", "leftPath", "rightPath"}

SplitInputs ==
    [callDirection : Directions, write : ToolOutcomes, probe : ProbeOutcomes,
     left : ToolOutcomes, right : ToolOutcomes, read : ToolOutcomes,
     partial : BOOLEAN]

\* The run inside transcribeAudio (index.js:764): the files can be written
\* and read; the direction is fixed because it chooses only which buffer is
\* the manager's, never what is run.
SplitOf(probe, left, right) ==
    [callDirection |-> "incoming", write |-> "ok", probe |-> probe,
     left |-> left, right |-> right, read |-> "ok", partial |-> FALSE]

Ran(exit, created, n) ==
    [exit |-> exit, created |-> created, extractions |-> n]

\* Variant of SplitRun: the channel count is tested after the extractions.
SplitRunLateNull(in) ==
    LET left(f) == IF in.partial THEN {f} ELSE {}
    IN  IF in.write = "fail" THEN Ran("threw", left("inputPath"), 0)
        ELSE IF in.probe = "fail" THEN Ran("threw", {"inputPath"}, 0)
        ELSE IF in.left = "fail"
             THEN Ran("threw", {"inputPath"} \cup left("leftPath"), 1)
        ELSE IF in.right = "fail"
             THEN Ran("threw", {"inputPath", "leftPath"} \cup left("rightPath"), 2)
        ELSE IF in.probe = "mono" THEN Ran("null", TempFiles, 2)
        ELSE IF in.read = "fail" THEN Ran("threw", TempFiles, 2)
        ELSE Ran("pair", TempFiles, 2)

\* index.js:452-493   the try block: how it is left, the files created on
\* the way and the number of ffmpeg extractions started
SplitRun(in) ==
    LET left(f) == IF in.partial THEN {f} ELSE {}
    IN  IF in.write = "fail" THEN Ran("threw", left("inputPath"), 0)
        ELSE IF in.probe = "fail" THEN Ran("threw", {"inputPath"}, 0)
        ELSE IF in.probe = "mono" THEN Ran("null", {"inputPath"}, 0)
        ELSE IF in.left = "fail"
             THEN Ran("threw", {"inputPath"} \cup left("leftPath"), 1)
        ELSE IF in.right = "fail"
             THEN Ran("threw", {"inputPath", "leftPath"} \cup left("rightPath"), 2)
        ELSE IF in.read = "fail" THEN Ran("threw", TempFiles, 2)
        ELSE Ran("pair", TempFiles, 2)

\* fs.unlinkSync inside try/catch: the file is gone afterwards, and a missing
\* file is not an error
unlinkSync(files, path) == files \ {path}

\* Variant of Cleanup: only the input file is removed.
CleanupInputOnly(files) == unlinkSync(files, "inputPath")

\* index.js:494-498   the finally block
Cleanup(files) ==
    unlinkSync(unlinkSync(unlinkSync(files, "inputPath"), "leftPath"), "rightPath")

\* Variant of channelRoles: the channels are never swapped.
channelRolesNoSwap(callDirection) == [client |-> "left", manager |-> "right"]

\* index.js:445, 478-493   the default of the parameter, isOutgoing and the
\* pair returned
channelRoles(callDirection) ==
    IF (IF callDirection = "undefined" THEN "incoming" ELSE callDirection)
          = "outgoing"
    THEN [client |-> "right", manager |-> "left"]
    ELSE [client |-> "left", manager |-> "right"]

NoChannels == [client |-> "none", manager |-> "none"]

NotSplit ==
    [st |-> "pending", exit |-> "none", channels |-> NoChannels,
     created |-> {}, files |-> {}, extractions |-> 0]

SplitIdle ==
    /\ splitIn = SplitOf("fail", "ok", "ok")
    /\ splitOut = NotSplit

\* index.js:445-499   splitStereoChannels runs from its call to its return
\* or throw
Separate ==
    /\ splitOut.st = "pending"
    /\ splitOut' =
         [st |-> "exited",
          exit |-> SplitRun(splitIn).exit,
          channels |-> IF SplitRun(splitIn).exit = "pair"
                       THEN channelRoles(splitIn.callDirection)
                       ELSE NoChannels,
          created |-> SplitRun(splitIn).created,
          files |-> Cleanup(SplitRun(splitIn).created),
          extractions |-> SplitRun(splitIn).extractions]
    /\ UNCHANGED <<splitIn, parseVars, scoreVars, textVars, flatVars>>
    /\ UNCHANGED <<pipeVars, retryVars, guardVars, tmpVars, routeVars>>

(***************************************************************************)
(* SpecScore: the row analyzeCallById upserts into call_scores             *)
(* (index.js:1003-1017) for the object analyzeCall returned.  A field of   *)
(* the object is a JavaScript value: a number, kept in tenths (725 is      *)
(* 72.5) so that Math.round has something to round, undefined when the     *)
(* model left the field out, or a string that is no numeral.  The call     *)
(* types "PRIMARY" and "SHORT" stand for two of the values the prompt      *)
(* lists (index.js:896), the second being the short-call classification.   *)
(***************************************************************************)
Blocks6 == 1..6
CallTypes == {"PRIMARY", "SHORT"}

Number(tenths) == [type |-> "number", tenths |-> tenths]
Undefined == [type |-> "undefined", tenths |-> 0]
NonNumeric == [type |-> "string", tenths |-> 0]
NaN == [type |-> "NaN", tenths |-> 0]

\* What the model may put in a score field: nothing, a word, a negative
\* number, numbers of the 0-100 band, a number above it.
ScoreValues == {Undefined, NonNumeric, Number(-15), Number(725), Number(1500)}
TotalScores == ScoreValues \cup {Number(0), Number(1000)}

Analyses ==
    [call_type : CallTypes, blocks : [Blocks6 -> ScoreValues],
     total_score : TotalScores]

NoAnalysis ==
    [call_type |-> "none", blocks |-> [i \in Blocks6 |-> Undefined],
     total_score |-> Undefined]

\* Math.round: the nearest integer of a number, halves up; NaN of undefined
\* and of a string that is no numeral
MathRound(x) ==
    IF x.type = "number" THEN Number(10 * ((x.tenths + 5) \div 10)) ELSE NaN

\* index.js:1005-1010   the fields of the call_scores row
ScoreRow(a) ==
    [call_type |-> a.call_type,
     total_score |-> MathRound(a.total_score),
     blocks |-> [i \in Blocks6 |-> MathRound(a.blocks[i])]]

NoRow ==
    [call_type |-> "none", total_score |-> Undefined,
     blocks |-> [i \in Blocks6 |-> Undefined]]

ScoreIdle ==
    /\ analysis = NoAnalysis
    /\ scoreRow = NoRow

\* index.js:1003-1026   analyzeCall returned `analysis`; the row is written
\* and the invocation is done
Upsert ==
    /\ scoreRow = NoRow
    /\ scoreRow' = ScoreRow(analysis)
    /\ UNCHANGED <<analysis, parseVars, splitVars, textVars, flatVars>>
    /\ UNCHANGED <<pipeVars, retryVars, guardVars, tmpVars, routeVars>>

(***************************************************************************)
(* SpecTranscript: the transcript transcribeAudio (index.js:750-850)       *)
(* builds on one path, from the texts the speech recognition returned and  *)
(* the response of the translation model.                                  *)
(*                                                                         *)
(* A text is the number of characters it has when the white space around   *)
(* it is taken off, and whether there is such white space: the empty       *)
(* string is [pad |-> FALSE, len |-> 0], a text of blanks only is          *)
(* [pad |-> TRUE, len |-> 0].  A field the service left out is read as     *)
(* the empty string, as `x || ''` reads it.                                *)
(***************************************************************************)
Text(pad, len) == [pad |-> pad, len |-> len]
EmptyText == Text(FALSE, 0)
TextLens == {0, SHORT_TEXT - 1, SHORT_TEXT}
Texts == [pad : BOOLEAN, len : TextLens]

\* String.prototype.trim
trim(text) == Text(FALSE, text.len)

\* a string is truthy unless it is empty
Truthy(text) == text.pad \/ text.len > 0

\* Array.prototype.join(' ') of the texts of at most two blocks
JoinTexts(blocks) ==
    IF Len(blocks) = 0 THEN EmptyText
    ELSE IF Len(blocks) = 1 THEN blocks[1].text
    ELSE Text(blocks[1].text.pad \/ blocks[2].text.pad,
              blocks[1].text.len + 1 + blocks[2].text.len)

\* The responses of the translation model: by the branch of
\* index.js:617-645 they take and, for an object, its two texts.
TextResponses ==
    [kind : {"nochoices", "nocontent", "nojson", "badjson"},
     manager : {EmptyText}, client : {EmptyText}] \cup
    [kind : {"object"}, manager : Texts, client : Texts]

Heard ==
    [path : {"stereo"}, first : Texts, second : Texts, resp : TextResponses]
    \cup
    [path : {"mono"}, first : Texts, second : {EmptyText}, resp : TextResponses]

TextsOf(m, c) == [throws |-> FALSE, manager |-> m, client |-> c]
TextsThrow == [throws |-> TRUE, manager |-> EmptyText, client |-> EmptyText]

\* index.js:617-655, 708-739   the texts repairAndTranslate and
\* repairAndTranslateMono return: the raw texts as they are without choices
\* or content, else the trimmed texts of the result
translatedTexts(resp, managerRaw, clientRaw) ==
    CASE resp.kind \in {"nochoices", "nocontent"} -> TextsOf(managerRaw, clientRaw)
      [] resp.kind = "nojson"  -> TextsOf(trim(managerRaw), trim(clientRaw))
      [] resp.kind = "badjson" -> TextsThrow
      [] resp.kind = "object"  -> TextsOf(trim(resp.manager), trim(resp.client))

\* index.js:665-668   the guard of repairAndTranslateMono, then the same
translatedMonoTexts(resp, rawText) ==
    IF ~Truthy(rawText) \/ trim(rawText).len < SHORT_TEXT
    THEN TextsOf(rawText, EmptyText)
    ELSE translatedTexts(resp, rawText, EmptyText)

Block(role, text) == [role |-> role, text |-> text]

\* index.js:787-789, 834-836   a block is pushed for each truthy text
TextBlocks(translated) ==
    (IF Truthy(translated.manager)
     THEN <<Block("manager", translated.manager)>> ELSE <<>>) \o
    (IF Truthy(translated.client)
     THEN <<Block("client", translated.client)>> ELSE <<>>)

TranscriptOf(blocks) ==
    [st |-> "returned", formatted |-> blocks, plain |-> JoinTexts(blocks)]
TranscriptThrown == [st |-> "thrown", formatted |-> <<>>, plain |-> EmptyText]
NoTranscript == [st |-> "pending", formatted |-> <<>>, plain |-> EmptyText]

\* index.js:770-793 with 539   the stereo branch from the two recognised
\* texts on; "thrown" is the exception the catch of line 795 receives
stereoTranscript(managerResult, clientResult, resp) ==
    LET managerRaw == trim(managerResult)
        clientRaw == trim(clientResult)
        translated == translatedTexts(resp, managerRaw, clientRaw)
    IN  IF ~Truthy(managerRaw) /\ ~Truthy(clientRaw) THEN TranscriptOf(<<>>)
        ELSE IF translated.throws THEN TranscriptThrown
        ELSE TranscriptOf(TextBlocks(translated))

\* index.js:824-840   the mono code from the recognised text on
monoTranscript(result, resp) ==
    LET rawText == trim(result)
        translated == translatedMonoTexts(resp, rawText)
    IN  IF rawText.len < SHORT_TEXT
        THEN TranscriptOf(<<Block("manager", rawText)>>)
        ELSE IF translated.throws THEN TranscriptThrown
        ELSE TranscriptOf(TextBlocks(translated))

TextIdle ==
    /\ heard = [path |-> "none", first |-> EmptyText, second |-> EmptyText,
                resp |-> [kind |-> "nochoices", manager |-> EmptyText,
                          client |-> EmptyText]]
    /\ transcript = NoTranscript

\* index.js:770-793   both channels are recognised and translated
AssembleStereo ==
    /\ transcript.st = "pending"
    /\ heard.path = "stereo"
    /\ transcript' = stereoTranscript(heard.first, heard.second, heard.resp)
    /\ UNCHANGED <<heard, parseVars, splitVars, scoreVars, flatVars>>
    /\ UNCHANGED <<pipeVars, retryVars, guardVars, tmpVars, routeVars>>

\* index.js:812-840   the whole recording is recognised and translated
AssembleMono ==
    /\ transcript.st = "pending"
    /\ heard.path = "mono"
    /\ transcript' = monoTranscript(heard.first, heard.resp)
    /\ UNCHANGED <<heard, parseVars, splitVars, scoreVars, flatVars>>
    /\ UNCHANGED <<pipeVars, retryVars, guardVars, tmpVars, routeVars>>

NextTranscript ==
    \/ AssembleStereo
    \/ AssembleMono

(***************************************************************************)
(* SpecFlatten: the dialogue text analyzeCall puts in its request          *)
(* (index.js:855-858, 901-902).  A text is the sequence of its lines (the  *)
(* translation is asked to return paragraphs, index.js:596), the empty     *)
(* string being one empty line; a line of the dialogue text is a label and *)
(* a line of text, the label "" when the line carries none.  `present` is  *)
(* FALSE when formatted is null or undefined.                              *)
(***************************************************************************)
LineTexts == {<<"a">>, <<"b", "c">>}

\* Variant of Label: every block gets the manager's label.
LabelAlwaysManager(role) == "ADMINISTRATOR"

\* index.js:857   the label of a block, in the prompt's language in the
\* source: the manager's for the role 'manager', the patient's otherwise
Label(role) == IF role = "manager" THEN "ADMINISTRATOR" ELSE "PATIENT"

\* index.js:857   the template literal of one block, as lines
EntryLines(r) ==
    [k \in 1..Len(r.text) |->
        [label |-> IF k = 1 THEN Label(r.role) ELSE "", text |-> r.text[k]]]

RECURSIVE JoinLines(_)
\* index.js:857   map(...).join('\n')
JoinLines(blocks) ==
    IF blocks = <<>> THEN <<>>
    ELSE EntryLines(Head(blocks)) \o JoinLines(Tail(blocks))

\* index.js:856-858   formatted?.length ? formatted.map(...).join : transcript
dialogText(g) ==
    IF g.present /\ Len(g.formatted) > 0
    THEN JoinLines(g.formatted)
    ELSE [k \in 1..Len(g.transcript) |-> [label |-> "", text |-> g.transcript[k]]]

FlatIdle ==
    /\ given = [present |-> FALSE, transcript |-> <<>>, formatted |-> <<>>]
    /\ dialog = [st |-> "pending", lines |-> <<>>]

\* index.js:855-902   analyzeCall is called and builds its user prompt
Flatten ==
    /\ dialog.st = "pending"
    /\ dialog' = [st |-> "sent", lines |-> dialogText(given)]
    /\ UNCHANGED <<given, parseVars, splitVars, scoreVars, textVars>>
    /\ UNCHANGED <<pipeVars, retryVars, guardVars, tmpVars, routeVars>>

(***************************************************************************)
(* Spec: one invocation of analyzeCallById (index.js:979-1031) that passed *)
(* the duplicate guard, with transcribeAudio (750-850) and analyzeCall     *)
(* (855-975) inlined.                                                      *)
(*                                                                         *)
(* Texts are abstracted to what the control flow reads of them: a raw text *)
(* is "empty", "short" (1..14 characters after trim) or "long" (15 or      *)
(* more); a block of the transcript is present or not.  A model response   *)
(* is abstracted to the branch of the parsing code it takes.               *)
(***************************************************************************)
Roles == {"manager", "client"}
Other(r) == IF r = "manager" THEN "client" ELSE "manager"

Kinds == {"download", "separate", "manager", "client", "mono",
          "translateStereo", "translateMono", "score"}

RawClasses == {"empty", "short", "long"}

\* Responses of the translation model, by the branch of index.js:617-645.
TranslateResponses ==
    {"nochoices", "nocontent", "nojson", "badjson",
     "obj_both", "obj_manager", "obj_client", "obj_none"}

\* Responses of the scoring model, by the branch of index.js:948-974.
ScoreResponses == {"nochoices", "nocontent", "nojson", "badjson", "object"}

Translated(m, c) == [throws |-> FALSE, manager |-> m, client |-> c]
TranslateThrows == [throws |-> TRUE, manager |-> FALSE, client |-> FALSE]

\* index.js:617-655   what repairAndTranslate makes of the model's response
repairAndTranslate(resp, adminRaw, clientRaw) ==
    CASE resp \in {"nochoices", "nocontent", "nojson"} ->
             Translated(adminRaw # "empty", clientRaw # "empty")
      [] resp = "badjson"     -> TranslateThrows
      [] resp = "obj_both"    -> Translated(TRUE, TRUE)
      [] resp = "obj_manager" -> Translated(TRUE, FALSE)
      [] resp = "obj_client"  -> Translated(FALSE, TRUE)
      [] resp = "obj_none"    -> Translated(FALSE, FALSE)

\* index.js:708-739   what repairAndTranslateMono makes of the response
repairAndTranslateMono(resp, rawText) ==
    CASE resp \in {"nochoices", "nocontent", "nojson"} ->
             Translated(rawText # "empty", FALSE)
      [] resp = "badjson"     -> TranslateThrows
      [] resp = "obj_both"    -> Translated(TRUE, TRUE)
      [] resp = "obj_manager" -> Translated(TRUE, FALSE)
      [] resp = "obj_client"  -> Translated(FALSE, TRUE)
      [] resp = "obj_none"    -> Translated(FALSE, FALSE)

\* Variant of Blocks: the client's block is pushed before the manager's.
BlocksClientFirst(translated) ==
    (IF translated.client THEN <<"client">> ELSE <<>>) \o
    (IF translated.manager THEN <<"manager">> ELSE <<>>)

\* index.js:787-789, 834-836   the blocks pushed for a translation result
Blocks(translated) ==
    (IF translated.manager THEN <<"manager">> ELSE <<>>) \o
    (IF translated.client THEN <<"client">> ELSE <<>>)

\* index.js:948-974   analyzeCall returns an object only in this case
analyzeCallParses(resp) == resp = "object"

Bump(kind) == [made EXCEPT ![kind] = @ + 1]

IdleChan == [st |-> "idle", attempt |-> 0, raw |-> "none"]
ChanOf(c, raw) == [st |-> c.st, attempt |-> c.attempt, raw |-> raw]
CallOf(ch) == [st |-> ch.st, attempt |-> ch.attempt]

TmpIdle ==
    /\ tmpFiles = <<>>
    /\ separations = <<>>

RouteIdle ==
    /\ db = <<>>
    /\ syncing = {}
    /\ recordUrl = <<>>

PipeIdle ==
    /\ FFMPEG_AVAILABLE = FALSE
    /\ pc = "Idle"
    /\ sep = "notrun"
    /\ chan = [r \in Roles |-> IdleChan]
    /\ seqCall = IdleCall
    /\ monoPayload = "none"
    /\ rawMono = "none"
    /\ formatted = <<>>
    /\ dbTranscript = [saved |-> FALSE, blocks |-> <<>>]
    /\ dbScore = "none"
    /\ made = [k \in Kinds |-> 0]
    /\ failed = {}
    /\ extractions = 0

GuardIdle ==
    /\ processingCalls = {}
    /\ inv = <<>>

\* index.js:166-174, 979-990   start-up, then the guard passed and the call
\* record is being read
Init ==
    /\ FFMPEG_AVAILABLE \in BOOLEAN
    /\ pc = "ReadingCall"
    /\ sep = "notrun"
    /\ chan = [r \in Roles |-> IdleChan]
    /\ seqCall = IdleCall
    /\ monoPayload = "none"
    /\ rawMono = "none"
    /\ formatted = <<>>
    /\ dbTranscript = [saved |-> FALSE, blocks |-> <<>>]
    /\ dbScore = "none"
    /\ made = [k \in Kinds |-> 0]
    /\ failed = {}
    /\ extractions = 0
    /\ RetryIdle
    /\ GuardIdle
    /\ ParseIdle
    /\ SplitIdle
    /\ ScoreIdle
    /\ TextIdle
    /\ FlatIdle /\ TmpIdle /\ RouteIdle

\* Variant of Abort: the catch swallows the error and the caller goes on.
AbortSwallowed(stage) ==
    /\ pc' = "SavingTranscript"
    /\ failed' = failed \cup {stage}
    /\ seqCall' = IdleCall

\* index.js:1027-1030 with 842-849   a stage threw: nothing catches it
Abort(stage) ==
    /\ pc' = "Aborted"
    /\ failed' = failed \cup {stage}
    /\ seqCall' = IdleCall

\* index.js:800-822   the mono request is issued on the downloaded buffer
StartMonoFrom(m) ==
    /\ pc' = "TranscribingMono"
    /\ seqCall' = CallStart(MAX_RETRIES)
    /\ monoPayload' = "audioBuffer"
    /\ made' = [m EXCEPT !["mono"] = @ + 1]

StartMono == StartMonoFrom(made)

\* index.js:990-1000, 753   the call record arrived: 'No audio', or download
ReadCall ==
    /\ pc = "ReadingCall"
    /\ \E hasAudio \in BOOLEAN :
        IF hasAudio
        THEN /\ pc' = "Fetching"
             /\ made' = Bump("download")
             /\ UNCHANGED <<seqCall, failed>>
        ELSE /\ Abort("audio")
             /\ UNCHANGED made
    /\ UNCHANGED <<FFMPEG_AVAILABLE, sep, chan, monoPayload, rawMono,
                   formatted, dbTranscript, dbScore>>
    /\ UNCHANGED extractions
    /\ UNCHANGED <<retryVars, guardVars, fnVars, tmpVars, routeVars>>

\* Variant of FetchFail: a failed download is tried again.
FetchFailRetried ==
    /\ pc = "Fetching"
    /\ made["download"] < MAX_RETRIES
    /\ made' = Bump("download")
    /\ UNCHANGED <<FFMPEG_AVAILABLE, pc, sep, chan, seqCall, monoPayload,
                   rawMono, formatted, dbTranscript, dbScore, failed>>
    /\ UNCHANGED extractions
    /\ UNCHANGED <<retryVars, guardVars, fnVars, tmpVars, routeVars>>

\* index.js:753, 842-849   axios.get rejected
FetchFail ==
    /\ pc = "Fetching"
    /\ Abort("fetch")
    /\ UNCHANGED <<FFMPEG_AVAILABLE, sep, chan, monoPayload, rawMono,
                   formatted, dbTranscript, dbScore, made>>
    /\ UNCHANGED extractions
    /\ UNCHANGED <<retryVars, guardVars, fnVars, tmpVars, routeVars>>

\* index.js:445-499   what splitStereoChannels returns or throws
splitStereoChannels(probe, left, right) ==
    CASE probe = "fail" -> "probeError"
      [] probe = "mono" -> "null"
      [] probe = "stereo" /\ left = "fail" -> "leftError"
      [] probe = "stereo" /\ left = "ok" /\ right = "fail" -> "rightError"
      [] OTHER -> "pair"

SepErrors == {"probeError", "leftError", "rightError"}

\* Variant of StartStereo: the client call is not started with the manager's.
StartStereoOneByOne ==
    /\ pc' = "TranscribingStereo"
    /\ chan' = [chan EXCEPT !["manager"] = ChanOf(CallStart(MAX_RETRIES), "none")]
    /\ made' = [made EXCEPT !["separate"] = @ + 1, !["manager"] = @ + 1]
    /\ UNCHANGED <<seqCall, monoPayload>>

\* index.js:769-773   both transcribeChannel calls issue their first request
StartStereo ==
    /\ pc' = "TranscribingStereo"
    /\ chan' = [r \in Roles |-> ChanOf(CallStart(MAX_RETRIES), "none")]
    /\ made' = [made EXCEPT !["separate"] = @ + 1,
                            !["manager"] = @ + 1, !["client"] = @ + 1]
    /\ UNCHANGED <<seqCall, monoPayload>>

\* Variant of AfterSeparation: a null result enters the stereo branch.
AfterSeparationNullIsPair(result) ==
    IF result \in {"pair", "null"}
    THEN StartStereo /\ UNCHANGED failed
    ELSE StartMonoFrom(Bump("separate")) /\ UNCHANGED <<chan, failed>>

\* Variant of AfterSeparation: an exception of the separator is not caught.
AfterSeparationNoCatch(result) ==
    CASE result = "pair" -> StartStereo /\ UNCHANGED failed
      [] result \in SepErrors ->
            /\ Abort("separation")
            /\ made' = Bump("separate")
            /\ UNCHANGED <<chan, monoPayload>>
      [] OTHER -> StartMonoFrom(Bump("separate")) /\ UNCHANGED <<chan, failed>>

\* index.js:764-766, 795-801   the result of splitStereoChannels decides:
\* a pair starts the stereo branch; null falls through to the mono code, and
\* so does an exception, through the catch
AfterSeparation(result) ==
    IF result = "pair"
    THEN StartStereo /\ UNCHANGED failed
    ELSE StartMonoFrom(Bump("separate")) /\ UNCHANGED <<chan, failed>>

\* index.js:758-773, 795-822   the audio arrived; separation runs
\* synchronously and the first transcription request(s) go out
FetchOk ==
    /\ pc = "Fetching"
    /\ IF FFMPEG_AVAILABLE
       THEN \E probe \in ProbeOutcomes, left, right \in ToolOutcomes :
              /\ sep' = splitStereoChannels(probe, left, right)
              /\ extractions' = SplitRun(SplitOf(probe, left, right)).extractions
              /\ AfterSeparation(sep')
       ELSE /\ sep' = "skipped"
            /\ StartMono
            /\ UNCHANGED <<chan, failed, extractions>>
    /\ UNCHANGED <<FFMPEG_AVAILABLE, rawMono, formatted, dbTranscript,
                   dbScore>>
    /\ UNCHANGED <<retryVars, guardVars, fnVars, tmpVars, routeVars>>

\* Variant of AfterStereo: the early return for two empty texts is missing.
AfterStereoNoReturn(managerRaw, clientRaw) ==
    IF managerRaw = "empty" /\ clientRaw = "empty"
    THEN /\ pc' = "TranscribingMono"
         /\ seqCall' = CallStart(MAX_RETRIES)
         /\ made' = Bump("mono")
         /\ UNCHANGED formatted
    ELSE /\ pc' = "RepairingStereo"
         /\ seqCall' = CallStart(MAX_RETRIES)
         /\ made' = Bump("translateStereo")
         /\ UNCHANGED formatted

\* index.js:775-785   Promise.all resolved with both raw texts
AfterStereo(managerRaw, clientRaw) ==
    IF managerRaw = "empty" /\ clientRaw = "empty"
    THEN /\ pc' = "SavingTranscript"
         /\ formatted' = <<>>
         /\ UNCHANGED <<seqCall, made>>
    ELSE /\ pc' = "RepairingStereo"
         /\ seqCall' = CallStart(MAX_RETRIES)
         /\ made' = Bump("translateStereo")
         /\ UNCHANGED formatted

\* index.js:527-541   a channel's request resolved; when it is the second of
\* the two, Promise.all resolves and transcribeAudio goes on
ChannelOk(r) ==
    /\ chan[r].st = "inflight"
    /\ \E raw \in RawClasses :
        /\ chan' = [chan EXCEPT ![r] = ChanOf(CallOnSuccess(CallOf(@)), raw)]
        /\ IF pc = "TranscribingStereo" /\ chan[Other(r)].st = "returned"
           THEN AfterStereo(chan'["manager"].raw, chan'["client"].raw)
           ELSE UNCHANGED <<pc, seqCall, made, formatted>>
    /\ UNCHANGED <<FFMPEG_AVAILABLE, sep, monoPayload, rawMono, dbTranscript,
                   dbScore, failed>>
    /\ UNCHANGED extractions
    /\ UNCHANGED <<retryVars, guardVars, fnVars, tmpVars, routeVars>>

\* Variant of StereoFallback: the catch rethrows instead of falling back.
StereoFallbackRethrows(stage) ==
    /\ Abort(stage)
    /\ UNCHANGED <<monoPayload, made>>

\* index.js:795-822   the catch around the stereo branch: log, then go on
\* to the mono transcription of the downloaded buffer
StereoFallback(stage) ==
    /\ StartMono
    /\ failed' = failed \cup {stage}

\* index.js:527-537 with 62-105, 770, 795-822   a channel's request rejected:
\* wait, or throw; the first throw rejects Promise.all and the catch falls
\* back to mono while the other channel's call goes on by itself
ChannelError(r) ==
    /\ chan[r].st = "inflight"
    /\ \E error \in Errors :
        /\ chan' = [chan EXCEPT ![r] =
                      ChanOf(CallOnError(CallOf(@), MAX_RETRIES, error), @.raw)]
        /\ IF chan'[r].st = "thrown" /\ pc = "TranscribingStereo"
           THEN StereoFallback("stereoTranscription")
           ELSE UNCHANGED <<pc, seqCall, monoPayload, made, failed>>
    /\ UNCHANGED <<FFMPEG_AVAILABLE, sep, rawMono, formatted, dbTranscript,
                   dbScore>>
    /\ UNCHANGED extractions
    /\ UNCHANGED <<retryVars, guardVars, fnVars, tmpVars, routeVars>>

\* index.js:105, 59-61   a channel's retry delay is over
ChannelRetry(r) ==
    /\ chan[r].st = "wait"
    /\ made[r] < MaxMade
    /\ chan' = [chan EXCEPT ![r] =
                  ChanOf(CallAfterWait(CallOf(@), MAX_RETRIES), @.raw)]
    /\ made' = IF chan'[r].st = "inflight" THEN Bump(r) ELSE made
    /\ UNCHANGED <<FFMPEG_AVAILABLE, pc, sep, seqCall, monoPayload, rawMono,
                   formatted, dbTranscript, dbScore, failed>>
    /\ UNCHANGED extractions
    /\ UNCHANGED <<retryVars, guardVars, fnVars, tmpVars, routeVars>>

\* index.js:105, 59-61   the retry delay of the awaited call is over
SeqKind ==
    CASE pc = "TranscribingMono" -> "mono"
      [] pc = "RepairingStereo"  -> "translateStereo"
      [] pc = "RepairingMono"    -> "translateMono"
      [] pc = "Scoring"          -> "score"
      [] OTHER                   -> "none"

SeqRetry ==
    /\ seqCall.st = "wait"
    /\ SeqKind # "none"
    /\ made[SeqKind] < MaxMade
    /\ seqCall' = CallAfterWait(seqCall, MAX_RETRIES)
    /\ made' = IF seqCall'.st = "inflight" THEN Bump(SeqKind) ELSE made
    /\ UNCHANGED <<FFMPEG_AVAILABLE, pc, sep, chan, monoPayload, rawMono,
                   formatted, dbTranscript, dbScore, failed>>
    /\ UNCHANGED extractions
    /\ UNCHANGED <<retryVars, guardVars, fnVars, tmpVars, routeVars>>

\* The awaited request rejected: wait, or throw to `onThrow`.
SeqError(onThrow) ==
    /\ seqCall.st = "inflight"
    /\ \E error \in Errors :
        LET c == CallOnError(seqCall, MAX_RETRIES, error) IN
        IF c.st = "thrown"
        THEN onThrow
        ELSE /\ seqCall' = c
             /\ UNCHANGED <<pc, monoPayload, made, failed>>

\* index.js:824-832   the mono request resolved
MonoOk ==
    /\ pc = "TranscribingMono"
    /\ seqCall.st = "inflight"
    /\ \E raw \in RawClasses :
        /\ rawMono' = raw
        /\ IF raw # "long"
           THEN /\ pc' = "SavingTranscript"
                /\ formatted' = <<"manager">>
                /\ seqCall' = IdleCall
                /\ UNCHANGED made
           ELSE /\ pc' = "RepairingMono"
                /\ seqCall' = CallStart(MAX_RETRIES)
                /\ made' = Bump("translateMono")
                /\ UNCHANGED formatted
    /\ UNCHANGED <<FFMPEG_AVAILABLE, sep, chan, monoPayload, dbTranscript,
                   dbScore, failed>>
    /\ UNCHANGED extractions
    /\ UNCHANGED <<retryVars, guardVars, fnVars, tmpVars, routeVars>>

\* index.js:812-822, 842-849   the mono request rejected
MonoError ==
    /\ pc = "TranscribingMono"
    /\ SeqError(Abort("mono") /\ UNCHANGED <<monoPayload, made>>)
    /\ UNCHANGED <<FFMPEG_AVAILABLE, sep, chan, rawMono, formatted,
                   dbTranscript, dbScore>>
    /\ UNCHANGED extractions
    /\ UNCHANGED <<retryVars, guardVars, fnVars, tmpVars, routeVars>>

\* index.js:617-655, 785-793   the stereo translation request resolved
TranslateStereoOk ==
    /\ pc = "RepairingStereo"
    /\ seqCall.st = "inflight"
    /\ \E resp \in TranslateResponses :
        LET t == repairAndTranslate(resp, chan["manager"].raw, chan["client"].raw) IN
        IF t.throws
        THEN /\ StereoFallback("translateStereo")
             /\ UNCHANGED formatted
        ELSE /\ pc' = "SavingTranscript"
             /\ formatted' = Blocks(t)
             /\ seqCall' = IdleCall
             /\ UNCHANGED <<monoPayload, made, failed>>
    /\ UNCHANGED <<FFMPEG_AVAILABLE, sep, chan, rawMono, dbTranscript, dbScore>>
    /\ UNCHANGED extractions
    /\ UNCHANGED <<retryVars, guardVars, fnVars, tmpVars, routeVars>>

\* index.js:601-615, 795-798   the stereo translation request rejected
TranslateStereoError ==
    /\ pc = "RepairingStereo"
    /\ SeqError(StereoFallback("translateStereo"))
    /\ UNCHANGED <<FFMPEG_AVAILABLE, sep, chan, rawMono, formatted,
                   dbTranscript, dbScore>>
    /\ UNCHANGED extractions
    /\ UNCHANGED <<retryVars, guardVars, fnVars, tmpVars, routeVars>>

\* index.js:708-739, 832-840   the mono translation request resolved
TranslateMonoOk ==
    /\ pc = "RepairingMono"
    /\ seqCall.st = "inflight"
    /\ \E resp \in TranslateResponses :
        LET t == repairAndTranslateMono(resp, rawMono) IN
        IF t.throws
        THEN /\ Abort("translateMono")
             /\ UNCHANGED formatted
        ELSE /\ pc' = "SavingTranscript"
             /\ formatted' = Blocks(t)
             /\ seqCall' = IdleCall
             /\ UNCHANGED failed
    /\ UNCHANGED <<FFMPEG_AVAILABLE, sep, chan, monoPayload, rawMono,
                   dbTranscript, dbScore, made>>
    /\ UNCHANGED extractions
    /\ UNCHANGED <<retryVars, guardVars, fnVars, tmpVars, routeVars>>

\* index.js:692-706, 842-849   the mono translation request rejected
TranslateMonoError ==
    /\ pc = "RepairingMono"
    /\ SeqError(Abort("translateMono") /\ UNCHANGED <<monoPayload, made>>)
    /\ UNCHANGED <<FFMPEG_AVAILABLE, sep, chan, rawMono, formatted,
                   dbTranscript, dbScore>>
    /\ UNCHANGED extractions
    /\ UNCHANGED <<retryVars, guardVars, fnVars, tmpVars, routeVars>>

\* Variant of SaveTranscript: the scoring request goes out while the
\* transcript is not stored.
SaveTranscriptNotStored ==
    /\ pc = "SavingTranscript"
    /\ pc' = "Scoring"
    /\ seqCall' = CallStart(MAX_RETRIES)
    /\ made' = Bump("score")
    /\ UNCHANGED <<FFMPEG_AVAILABLE, sep, chan, monoPayload, rawMono,
                   formatted, dbTranscript, dbScore, failed>>
    /\ UNCHANGED extractions
    /\ UNCHANGED <<retryVars, guardVars, fnVars, tmpVars, routeVars>>

\* index.js:1001-1003, 931-946   the transcript is stored, the scoring
\* request goes out
SaveTranscript ==
    /\ pc = "SavingTranscript"
    /\ dbTranscript' = [saved |-> TRUE, blocks |-> formatted]
    /\ pc' = "Scoring"
    /\ seqCall' = CallStart(MAX_RETRIES)
    /\ made' = Bump("score")
    /\ UNCHANGED <<FFMPEG_AVAILABLE, sep, chan, monoPayload, rawMono,
                   formatted, dbScore, failed>>
    /\ UNCHANGED extractions
    /\ UNCHANGED <<retryVars, guardVars, fnVars, tmpVars, routeVars>>

\* Variant of ScoreOk: a response that cannot be parsed still leaves a score
\* row behind.
ScoreOkStoresOnFailure ==
    /\ pc = "Scoring"
    /\ seqCall.st = "inflight"
    /\ \E resp \in ScoreResponses :
        IF analyzeCallParses(resp)
        THEN /\ pc' = "SavingScore"
             /\ seqCall' = IdleCall
             /\ UNCHANGED <<failed, dbScore>>
        ELSE /\ Abort("scoring")
             /\ dbScore' = "saved"
    /\ UNCHANGED <<FFMPEG_AVAILABLE, sep, chan, monoPayload, rawMono,
                   formatted, dbTranscript, made>>
    /\ UNCHANGED extractions
    /\ UNCHANGED <<retryVars, guardVars, fnVars, tmpVars, routeVars>>

\* index.js:948-975, 1005   the scoring request resolved
ScoreOk ==
    /\ pc = "Scoring"
    /\ seqCall.st = "inflight"
    /\ \E resp \in ScoreResponses :
        IF analyzeCallParses(resp)
        THEN /\ pc' = "SavingScore"
             /\ seqCall' = IdleCall
             /\ UNCHANGED failed
        ELSE Abort("scoring")
    /\ UNCHANGED <<FFMPEG_AVAILABLE, sep, chan, monoPayload, rawMono,
                   formatted, dbTranscript, dbScore, made>>
    /\ UNCHANGED extractions
    /\ UNCHANGED <<retryVars, guardVars, fnVars, tmpVars, routeVars>>

\* index.js:931-946, 1027-1030   the scoring request rejected
ScoreError ==
    /\ pc = "Scoring"
    /\ SeqError(Abort("scoring") /\ UNCHANGED <<monoPayload, made>>)
    /\ UNCHANGED <<FFMPEG_AVAILABLE, sep, chan, rawMono, formatted,
                   dbTranscript, dbScore>>
    /\ UNCHANGED extractions
    /\ UNCHANGED <<retryVars, guardVars, fnVars, tmpVars, routeVars>>

\* index.js:1005-1026   the score is stored and the result returned
SaveScore ==
    /\ pc = "SavingScore"
    /\ dbScore' = "saved"
    /\ pc' = "Done"
    /\ UNCHANGED <<FFMPEG_AVAILABLE, sep, chan, seqCall, monoPayload, rawMono,
                   formatted, dbTranscript, made, failed>>
    /\ UNCHANGED extractions
    /\ UNCHANGED <<retryVars, guardVars, fnVars, tmpVars, routeVars>>

Next ==
    \/ ReadCall
    \/ FetchFail
    \/ FetchOk
    \/ \E r \in Roles : ChannelOk(r)
    \/ \E r \in Roles : ChannelError(r)
    \/ \E r \in Roles : ChannelRetry(r)
    \/ MonoOk
    \/ MonoError
    \/ TranslateStereoOk
    \/ TranslateStereoError
    \/ TranslateMonoOk
    \/ TranslateMonoError
    \/ SeqRetry
    \/ SaveTranscript
    \/ ScoreOk
    \/ ScoreError
    \/ SaveScore

Spec == Init /\ [][Next]_vars

\* Every external call the invocation waits for (the database, the download,
\* the separation, the speech and language services) returns or fails, and
\* every retry timer fires: a step that is possible is eventually taken.
SpecLive == Init /\ [][Next]_vars /\ WF_vars(Next)

\* index.js:58-61   callWithRetry is called: the first request, if any
InitRetry ==
    /\ rMax \in 0..MaxRetriesBound
    /\ rCall = CallStart(rMax)
    /\ rMade = IF rCall.st = "inflight" THEN 1 ELSE 0
    /\ rDelays = <<>>
    /\ rErrs = <<>>
    /\ rLastErr = Err("NONE", FALSE, 0)
    /\ PipeIdle /\ GuardIdle
    /\ ParseIdle /\ SplitIdle /\ ScoreIdle /\ TextIdle /\ FlatIdle /\ TmpIdle /\ RouteIdle

SpecRetry == InitRetry /\ [][NextRetry]_vars

(***************************************************************************)
(* SpecGuard: concurrent invocations of analyzeCallById (index.js:979-1031) *)
(* sharing processingCalls.  Each slot is one request (an API route or the *)
(* sync) calling analyzeCallById; the stages are those analyzeCallById     *)
(* awaits, and `did` collects what the invocation has done so far.         *)
(***************************************************************************)
Slots == 1..NumInvocations
CallIds == {"c1", "c2"}

IdleInv == [pc |-> "Idle", callId |-> "none", did |-> {}]

PastGuard == {"ReadingCall", "Transcribing", "SavingTranscript", "Scoring",
              "SavingScore"}

InitGuard ==
    /\ processingCalls = {}
    /\ inv = [i \in Slots |-> IdleInv]
    /\ PipeIdle
    /\ RetryIdle
    /\ ParseIdle
    /\ SplitIdle
    /\ ScoreIdle
    /\ TextIdle
    /\ FlatIdle /\ TmpIdle /\ RouteIdle

\* index.js:981   processingCalls.has(callId)
GuardHas(callId) == callId \in processingCalls

\* Variant of GuardAdd: the identifier is not recorded.
GuardAddForgotten(callId) == processingCalls

\* index.js:987   processingCalls.add(callId)
GuardAdd(callId) == processingCalls \cup {callId}

\* Variant of GuardDelete: the identifier stays in the set.
GuardDeleteKept(callId) == processingCalls

\* index.js:1029   processingCalls.delete(callId)
GuardDelete(callId) == processingCalls \ {callId}

\* Variant of Invoke: the guard is inside the try, so that the finally of a
\* rejected invocation deletes the identifier.
InvokeRejectDeletes(i, callId) ==
    /\ \/ inv[i].pc = "Idle"
       \/ inv[i].pc = "Calling" /\ inv[i].callId = callId
    /\ IF GuardHas(callId)
       THEN /\ inv' = [inv EXCEPT ![i] =
                         [pc |-> "Rejected", callId |-> callId,
                          did |-> inv[i].did]]
            /\ processingCalls' = GuardDelete(callId)
       ELSE /\ processingCalls' = GuardAdd(callId)
            /\ inv' = [inv EXCEPT ![i] =
                         [pc |-> "ReadingCall", callId |-> callId,
                          did |-> inv[i].did \cup {"read"}]]
    /\ UNCHANGED <<pipeVars, retryVars, fnVars, tmpVars>>

\* index.js:979-990   analyzeCallById is called: the guard, then the select.
\* The caller is a request that has just arrived ("Idle") or the reanalyze
\* route after its two writes ("Calling").
Invoke(i, callId) ==
    /\ \/ inv[i].pc = "Idle"
       \/ inv[i].pc = "Calling" /\ inv[i].callId = callId
    /\ IF GuardHas(callId)
       THEN /\ inv' = [inv EXCEPT ![i] =
                         [pc |-> "Rejected", callId |-> callId,
                          did |-> inv[i].did]]
            /\ UNCHANGED processingCalls
       ELSE /\ processingCalls' = GuardAdd(callId)
            /\ inv' = [inv EXCEPT ![i] =
                         [pc |-> "ReadingCall", callId |-> callId,
                          did |-> inv[i].did \cup {"read"}]]
    /\ UNCHANGED <<pipeVars, retryVars, fnVars, tmpVars>>

\* index.js:1027-1030   leaving the try block, by return or by throw
Finally(i, how) ==
    /\ processingCalls' = GuardDelete(inv[i].callId)
    /\ inv' = [inv EXCEPT ![i].pc = how]

\* index.js:990-1000   the call record arrived
GuardReadCall(i) ==
    /\ inv[i].pc = "ReadingCall"
    /\ \E hasAudio \in BOOLEAN :
        IF hasAudio
        THEN /\ inv' = [inv EXCEPT ![i].pc = "Transcribing",
                                   ![i].did = @ \cup {"fetch"}]
             /\ UNCHANGED processingCalls
        ELSE Finally(i, "Failed")
    /\ UNCHANGED <<pipeVars, retryVars, fnVars, tmpVars>>

\* index.js:1000-1001   transcribeAudio returned or threw
GuardTranscribed(i) ==
    /\ inv[i].pc = "Transcribing"
    /\ \E ok \in BOOLEAN :
        IF ok
        THEN /\ inv' = [inv EXCEPT ![i].pc = "SavingTranscript",
                                   ![i].did = @ \cup {"transcribe"}]
             /\ UNCHANGED processingCalls
        ELSE Finally(i, "Failed")
    /\ UNCHANGED <<pipeVars, retryVars, fnVars, tmpVars>>

\* index.js:1001-1003   the update of the transcript resolved and analyzeCall
\* starts, or the update rejected
GuardSavedTranscript(i) ==
    /\ inv[i].pc = "SavingTranscript"
    /\ \E ok \in BOOLEAN :
        IF ok
        THEN /\ inv' = [inv EXCEPT ![i].pc = "Scoring",
                                   ![i].did = @ \cup {"saveTranscript"}]
             /\ UNCHANGED processingCalls
        ELSE Finally(i, "Failed")
    /\ UNCHANGED <<pipeVars, retryVars, fnVars, tmpVars>>

\* index.js:1003-1005   analyzeCall returned or threw
GuardScored(i) ==
    /\ inv[i].pc = "Scoring"
    /\ \E ok \in BOOLEAN :
        IF ok
        THEN /\ inv' = [inv EXCEPT ![i].pc = "SavingScore",
                                   ![i].did = @ \cup {"score"}]
             /\ UNCHANGED processingCalls
        ELSE Finally(i, "Failed")
    /\ UNCHANGED <<pipeVars, retryVars, fnVars, tmpVars>>

\* index.js:1005-1030   the upsert of the score resolved and the result is
\* returned, or the upsert rejected
GuardSavedScore(i) ==
    /\ inv[i].pc = "SavingScore"
    /\ \E ok \in BOOLEAN : Finally(i, IF ok THEN "Done" ELSE "Failed")
    /\ UNCHANGED <<pipeVars, retryVars, fnVars, tmpVars>>

\* The request that called analyzeCallById has been answered; the slot
\* stands for the next request.
GuardNextRequest(i) ==
    /\ inv[i].pc \in {"Rejected", "Failed", "Done"}
    /\ inv' = [inv EXCEPT ![i] = IdleInv]
    /\ UNCHANGED processingCalls
    /\ UNCHANGED <<pipeVars, retryVars, fnVars, tmpVars>>

NextGuard ==
    \/ \E i \in Slots, callId \in CallIds : Invoke(i, callId) /\ UNCHANGED routeVars
    \/ \E i \in Slots : GuardReadCall(i) /\ UNCHANGED routeVars
    \/ \E i \in Slots : GuardTranscribed(i) /\ UNCHANGED routeVars
    \/ \E i \in Slots : GuardSavedTranscript(i) /\ UNCHANGED routeVars
    \/ \E i \in Slots : GuardScored(i) /\ UNCHANGED routeVars
    \/ \E i \in Slots : GuardSavedScore(i) /\ UNCHANGED routeVars
    \/ \E i \in Slots : GuardNextRequest(i) /\ UNCHANGED routeVars

SpecGuard == InitGuard /\ [][NextGuard]_vars

(***************************************************************************)
(* SpecRoutes: the two routes that call analyzeCallById                    *)
(* (index.js:1035-1065) with what is stored for each call.  db gives for   *)
(* each call whether the calls row exists and has an audio_url, whether a  *)
(* transcript is stored and whether a call_scores row exists.  The         *)
(* database writes are taken to succeed.  `did` collects, besides the      *)
(* stages of analyzeCallById, the writes of the request that changed what  *)
(* was stored.                                                             *)
(***************************************************************************)
RouteSlots == {1, 2}



\* index.js:1053   /api/reanalyze deletes the score row of the call
ReanalyzeDelete(i, callId) ==
    /\ inv[i].pc = "Idle"
    /\ inv' = [inv EXCEPT ![i] =
                 [pc |-> "ClearingTranscript", callId |-> callId,
                  did |-> IF db[callId].score THEN {"deletedScore"} ELSE {}]]
    /\ db' = [db EXCEPT ![callId].score = FALSE]
    /\ UNCHANGED <<processingCalls, syncing, recordUrl>>
    /\ UNCHANGED <<pipeVars, retryVars, fnVars, tmpVars>>

\* index.js:1054   /api/reanalyze sets transcript and transcript_formatted
\* to null; analyzeCallById is called next (1055)
ReanalyzeUpdate(i) ==
    /\ inv[i].pc = "ClearingTranscript"
    /\ inv' = [inv EXCEPT ![i].pc = "Calling",
                          ![i].did = IF db[inv[i].callId].transcript
                                     THEN @ \cup {"clearedTranscript"} ELSE @]
    /\ db' = [db EXCEPT ![inv[i].callId].transcript = FALSE]
    /\ UNCHANGED <<processingCalls, syncing, recordUrl>>
    /\ UNCHANGED <<pipeVars, retryVars, fnVars, tmpVars>>

\* index.js:1001   the update of calls stores the new transcript
RouteSavedTranscript(i) ==
    /\ GuardSavedTranscript(i)
    /\ db' = IF inv'[i].pc = "Scoring"
             THEN [db EXCEPT ![inv[i].callId].transcript = TRUE]
             ELSE db
    /\ UNCHANGED <<syncing, recordUrl>>

\* index.js:1005-1017   the upsert of call_scores stores the score row
RouteSavedScore(i) ==
    /\ GuardSavedScore(i)
    /\ db' = IF inv'[i].pc = "Done"
             THEN [db EXCEPT ![inv[i].callId].score = TRUE]
             ELSE db
    /\ UNCHANGED <<syncing, recordUrl>>

\* Every call has a row with a recording; it may have been analysed before.
InitRoutes ==
    /\ processingCalls = {}
    /\ inv = [i \in Slots |-> IdleInv]
    /\ db \in [CallIds -> [audio : {"url"}, transcript : BOOLEAN,
                           score : BOOLEAN]]
    /\ syncing = {}
    /\ recordUrl = <<>>
    /\ TmpIdle
    /\ ParseIdle /\ SplitIdle /\ ScoreIdle /\ TextIdle /\ FlatIdle
    /\ PipeIdle /\ RetryIdle

NextRoutes ==
    \/ \E i \in RouteSlots, callId \in CallIds :
          Invoke(i, callId) /\ UNCHANGED routeVars
    \/ \E i \in RouteSlots, callId \in CallIds : ReanalyzeDelete(i, callId)
    \/ \E i \in RouteSlots : ReanalyzeUpdate(i)
    \/ \E i \in RouteSlots : GuardReadCall(i) /\ UNCHANGED routeVars
    \/ \E i \in RouteSlots : GuardTranscribed(i) /\ UNCHANGED routeVars
    \/ \E i \in RouteSlots : RouteSavedTranscript(i)
    \/ \E i \in RouteSlots : GuardScored(i) /\ UNCHANGED routeVars
    \/ \E i \in RouteSlots : RouteSavedScore(i)
    \/ \E i \in RouteSlots : GuardNextRequest(i) /\ UNCHANGED routeVars

SpecRoutes == InitRoutes /\ [][NextRoutes]_vars

(***************************************************************************)
(* SpecSync: the periodic sync (index.js:340-380), started every five      *)
(* minutes by the timer of app.listen (1112-1116) and after a webhook      *)
(* (322-336).  A run fetches the calls of the last two hours and visits    *)
(* them one after the other; the calls of the model stay inside that       *)
(* window.  recordUrl tells whether the statistics carry the recording of  *)
(* a call yet.  analyzeCallById is called without await (357, 372): the    *)
(* invocation takes a slot and goes on by itself.                          *)
(***************************************************************************)

\* index.js:340-346   a run starts and receives the calls of the window
SyncStart ==
    /\ syncing = {}
    /\ syncing' = CallIds
    /\ UNCHANGED <<db, recordUrl, processingCalls, inv>>
    /\ UNCHANGED <<pipeVars, retryVars, fnVars, tmpVars>>

\* index.js:347-376   one iteration of the loop: a known call gets its
\* recording stored and is analysed if it had none and has no score, a call
\* with a recording stored is skipped, an unknown call is inserted and
\* analysed if it has a recording
SyncVisit(i, callId) ==
    /\ callId \in syncing
    /\ syncing' = syncing \ {callId}
    /\ LET existing == db[callId].audio # "absent"
           fresh == db[callId].audio = "null" /\ recordUrl[callId]
           stored == IF existing /\ ~fresh THEN db[callId].audio
                     ELSE IF recordUrl[callId] THEN "url" ELSE "null"
           analyze == IF existing THEN fresh /\ ~db[callId].score
                      ELSE recordUrl[callId]
       IN  /\ db' = [db EXCEPT ![callId].audio = stored]
           /\ IF analyze
              THEN Invoke(i, callId)
              ELSE /\ UNCHANGED <<processingCalls, inv>>
                   /\ UNCHANGED <<pipeVars, retryVars, fnVars, tmpVars>>
    /\ UNCHANGED recordUrl

\* The telephony service has the recording of the call ready.
RecordArrives(callId) ==
    /\ ~recordUrl[callId]
    /\ recordUrl' = [recordUrl EXCEPT ![callId] = TRUE]
    /\ UNCHANGED <<db, syncing, processingCalls, inv>>
    /\ UNCHANGED <<pipeVars, retryVars, fnVars, tmpVars>>

\* The stages of an invocation that has passed the guard.
SyncedStep(i) ==
    \/ GuardReadCall(i) /\ UNCHANGED routeVars
    \/ GuardTranscribed(i) /\ UNCHANGED routeVars
    \/ RouteSavedTranscript(i)
    \/ GuardScored(i) /\ UNCHANGED routeVars
    \/ RouteSavedScore(i)
    \/ GuardNextRequest(i) /\ UNCHANGED routeVars

\* No call is known yet; a recording may be there from the start.
InitSync ==
    /\ processingCalls = {}
    /\ inv = [i \in Slots |-> IdleInv]
    /\ db = [c \in CallIds |->
               [audio |-> "absent", transcript |-> FALSE, score |-> FALSE]]
    /\ syncing = {}
    /\ recordUrl \in [CallIds -> BOOLEAN]
    /\ TmpIdle
    /\ ParseIdle /\ SplitIdle /\ ScoreIdle /\ TextIdle /\ FlatIdle
    /\ PipeIdle /\ RetryIdle

NextSync ==
    \/ SyncStart
    \/ \E i \in RouteSlots, callId \in CallIds : SyncVisit(i, callId)
    \/ \E callId \in CallIds : RecordArrives(callId)
    \/ \E i \in RouteSlots, callId \in CallIds :
          Invoke(i, callId) /\ UNCHANGED routeVars
    \/ \E i \in RouteSlots : SyncedStep(i)

\* The timer of app.listen starts a run every five minutes and a run visits
\* every call it received; every stage of an invocation returns or fails.
\* The requests to /api/analyze and the arrival of a recording are not
\* bound to happen.
SpecSync ==
    /\ InitSync /\ [][NextSync]_vars
    /\ WF_vars(SyncStart)
    /\ WF_vars(\E i \in RouteSlots, callId \in CallIds : SyncVisit(i, callId))
    /\ WF_vars(\E i \in RouteSlots : SyncedStep(i))

InitParse ==
    /\ response \in Responses
    /\ parsed = NotParsed
    /\ SplitIdle /\ ScoreIdle /\ TextIdle /\ FlatIdle /\ TmpIdle /\ RouteIdle
    /\ PipeIdle /\ RetryIdle /\ GuardIdle

SpecParse == InitParse /\ [][NextParse]_vars

InitSplit ==
    /\ splitIn \in SplitInputs
    /\ splitOut = NotSplit
    /\ ParseIdle /\ ScoreIdle /\ TextIdle /\ FlatIdle /\ TmpIdle /\ RouteIdle
    /\ PipeIdle /\ RetryIdle /\ GuardIdle

SpecSplit == InitSplit /\ [][Separate]_vars

InitScore ==
    /\ analysis \in Analyses
    /\ scoreRow = NoRow
    /\ ParseIdle /\ SplitIdle /\ TextIdle /\ FlatIdle /\ TmpIdle /\ RouteIdle
    /\ PipeIdle /\ RetryIdle /\ GuardIdle

SpecScore == InitScore /\ [][Upsert]_vars

InitTranscript ==
    /\ heard \in Heard
    /\ transcript = NoTranscript
    /\ ParseIdle /\ SplitIdle /\ ScoreIdle /\ FlatIdle /\ TmpIdle /\ RouteIdle
    /\ PipeIdle /\ RetryIdle /\ GuardIdle

SpecTranscript == InitTranscript /\ [][NextTranscript]_vars

InitFlatten ==
    /\ given \in
          [present : BOOLEAN, transcript : {<<"plain">>},
           formatted : UNION {[1..n -> [role : Roles, text : LineTexts]] :
                                 n \in 0..MaxBlocks}]
    /\ given.present \/ given.formatted = <<>>
    /\ dialog = [st |-> "pending", lines |-> <<>>]
    /\ ParseIdle /\ SplitIdle /\ ScoreIdle /\ TextIdle
    /\ PipeIdle /\ RetryIdle /\ GuardIdle /\ TmpIdle /\ RouteIdle

SpecFlatten == InitFlatten /\ [][Flatten]_vars

(***************************************************************************)
(* SpecTmp: the separations of concurrent invocations in one process       *)
(* (index.js:445-499, called at 764).  Every run names its three files     *)
(* after Date.now(), so two runs started in the same millisecond use the   *)
(* same names.  tmpFiles tells for each name which run wrote the file that *)
(* is there (0: no file).  splitStereoChannels is a synchronous function:  *)
(* writeFileSync, execSync, readFileSync and unlinkSync block the only     *)
(* thread, and no other invocation runs until it has returned.             *)
(***************************************************************************)
Stamps == {1, 2}
FileNames == Stamps \X TempFiles

IdleSeparation == [pc |-> "waiting", ts |-> 1, created |-> {}, foreign |-> FALSE]

InProgress(s) ==
    separations[s].pc \in {"written", "probed", "left", "right", "leaving"}

\* Variant of EventLoopFree: the function yields between its statements, as
\* it would with the promise forms of exec and of the fs calls.
EventLoopYields(s) == TRUE

\* index.js:445-499   no await, no callback: the function runs to its end
\* before any other invocation's code is run
EventLoopFree(s) == \A t \in Slots \ {s} : ~InProgress(t)

\* The files of the names this run uses that another run in progress wrote.
ForeignAmong(s, ts, files) ==
    \E f \in files :
        /\ tmpFiles[<<ts, f>>] \notin {0, s}
        /\ InProgress(tmpFiles[<<ts, f>>])

\* index.js:446-453   the names are derived from Date.now() and the input
\* file is written
SplitEnter(s, ts) ==
    /\ separations[s].pc \in {"waiting", "exited"}
    /\ EventLoopFree(s)
    /\ tmpFiles' = [tmpFiles EXCEPT ![<<ts, "inputPath">>] = s]
    /\ separations' = [separations EXCEPT ![s] =
          [pc |-> "written", ts |-> ts, created |-> {"inputPath"},
           foreign |-> ForeignAmong(s, ts, {"inputPath"})]]
    /\ UNCHANGED <<pipeVars, retryVars, guardVars, fnVars, routeVars>>

\* index.js:455-473   ffprobe, the channel count, the two ffmpeg runs and the
\* two reads, each a blocking call that may throw
SplitStep(s) ==
    /\ InProgress(s)
    /\ separations[s].pc # "leaving"
    /\ EventLoopFree(s)
    /\ LET cur == separations[s]
           to(at, new, touched) ==
               /\ separations' = [separations EXCEPT ![s] =
                     [pc |-> at, ts |-> cur.ts,
                      created |-> cur.created \cup new,
                      foreign |-> cur.foreign \/
                                  ForeignAmong(s, cur.ts, touched)]]
               /\ tmpFiles' = [n \in FileNames |->
                     IF n[1] = cur.ts /\ n[2] \in new THEN s ELSE tmpFiles[n]]
       IN  CASE cur.pc = "written" ->
                  \E probe \in ProbeOutcomes :
                     to(IF probe = "stereo" THEN "probed" ELSE "leaving",
                        {}, {"inputPath"})
             [] cur.pc = "probed" ->
                  \E left \in ToolOutcomes :
                     IF left = "ok"
                     THEN to("left", {"leftPath"}, {"inputPath", "leftPath"})
                     ELSE to("leaving", {}, {"inputPath"})
             [] cur.pc = "left" ->
                  \E right \in ToolOutcomes :
                     IF right = "ok"
                     THEN to("right", {"rightPath"}, {"inputPath", "rightPath"})
                     ELSE to("leaving", {}, {"inputPath"})
             [] cur.pc = "right" ->
                  to("leaving", {}, {"leftPath", "rightPath"})
    /\ UNCHANGED <<pipeVars, retryVars, guardVars, fnVars, routeVars>>

\* index.js:494-498   the finally block unlinks the three names
SplitLeave(s) ==
    /\ separations[s].pc = "leaving"
    /\ EventLoopFree(s)
    /\ tmpFiles' = [n \in FileNames |->
                      IF n[1] = separations[s].ts /\ n[2] \notin Cleanup(TempFiles)
                      THEN 0 ELSE tmpFiles[n]]
    /\ separations' = [separations EXCEPT ![s].pc = "exited", ![s].created = {},
          ![s].foreign = @ \/ ForeignAmong(s, separations[s].ts, TempFiles)]
    /\ UNCHANGED <<pipeVars, retryVars, guardVars, fnVars, routeVars>>

\* index.js:761-765   every invocation is about to call splitStereoChannels
InitTmp ==
    /\ tmpFiles = [n \in FileNames |-> 0]
    /\ separations = [s \in Slots |-> IdleSeparation]
    /\ RouteIdle
    /\ ParseIdle /\ SplitIdle /\ ScoreIdle /\ TextIdle /\ FlatIdle
    /\ PipeIdle /\ RetryIdle /\ GuardIdle

NextTmp ==
    \/ \E s \in Slots, ts \in Stamps : SplitEnter(s, ts)
    \/ \E s \in Slots : SplitStep(s)
    \/ \E s \in Slots : SplitLeave(s)

SpecTmp == InitTmp /\ [][NextTmp]_vars

(***************************************************************************)
(* Properties.                                                             *)
(***************************************************************************)
ChanActive(r) == chan[r].st \in {"inflight", "wait"}
PastSeparation == sep # "notrun"
MonoTaken == made["mono"] > 0
StereoFailures == {"stereoTranscription", "translateStereo"}
NewlyFailed(stage) == stage \notin failed /\ stage \in failed'

InFlightFor(callId) ==
    {i \in Slots : inv[i].callId = callId /\ inv[i].pc \in PastGuard}

\* C1: for every call identifier at most one invocation of analyzeCallById is
\* past the duplicate guard at any moment, and an invocation rejected by the
\* guard has read nothing, fetched nothing and called no service.
C1_OneInvocationPastGuard ==
    /\ \A callId \in CallIds : Cardinality(InFlightFor(callId)) <= 1
    /\ \A i \in Slots : inv[i].pc = "Rejected" => inv[i].did = {}

C1_Witness ==
    \E i, j \in Slots :
        /\ i # j
        /\ inv[i].callId = inv[j].callId
        /\ inv[i].pc = "Transcribing"
        /\ inv[j].pc = "Rejected"

\* C2: when a per-channel transcription call throws during the stereo
\* transcription, the same step starts the mono transcription request on the
\* downloaded (undivided) buffer instead of aborting the invocation.
C2_StereoFailureRestartsMono ==
    [][ (pc = "TranscribingStereo"
           /\ \E r \in Roles : chan[r].st # "thrown" /\ chan'[r].st = "thrown")
        => /\ pc' = "TranscribingMono"
           /\ seqCall' = [st |-> "inflight", attempt |-> 1]
           /\ monoPayload' = "audioBuffer"
           /\ made'["mono"] = made["mono"] + 1 ]_vars

C2_Witness ==
    /\ pc = "Done"
    /\ sep = "pair"
    /\ "stereoTranscription" \in failed
    /\ dbScore = "saved"

\* C3: per-channel transcription requests are issued if and only if
\* splitStereoChannels returned a channel pair; when it returned null, threw,
\* or was not run because ffmpeg is unavailable, the mono transcription is
\* started and no per-channel request is ever issued.
C3_StereoIffChannelPair ==
    /\ (~FFMPEG_AVAILABLE) => sep \in {"notrun", "skipped"}
    /\ (sep = "pair") <=> (made["manager"] > 0 \/ made["client"] > 0)
    /\ (sep = "pair") => (made["manager"] > 0 /\ made["client"] > 0)
    /\ pc \in {"TranscribingStereo", "RepairingStereo"} => sep = "pair"
    /\ (PastSeparation /\ sep # "pair") =>
          /\ MonoTaken
          /\ \A r \in Roles : chan[r] = IdleChan

C3_Witness ==
    /\ pc = "Done"
    /\ sep = "null"
    /\ made["mono"] = 1

\* C4: when ffprobe or one of the two ffmpeg extractions fails, the mono path
\* is taken with no per-channel request; the invocation then aborts only if
\* the mono transcription, the mono translation or the scoring fails, and
\* when it is done the transcript and the score are stored.
C4_SeparationFailureDegradesToMono ==
    sep \in SepErrors =>
        /\ MonoTaken
        /\ made["manager"] = 0 /\ made["client"] = 0
        /\ pc = "Aborted" => failed \cap {"mono", "translateMono", "scoring"} # {}
        /\ pc = "Done" =>
              /\ failed = {}
              /\ dbTranscript = [saved |-> TRUE, blocks |-> formatted]
              /\ dbScore = "saved"

C4_Witness ==
    /\ sep = "leftError"
    /\ pc = "Done"
    /\ dbScore = "saved"
    /\ rawMono = "long"

\* C5 as claimed: a failure of the audio fetch, the mono transcription, the
\* translation on either path or the scoring puts the invocation in Aborted,
\* and an aborted invocation issues no further request.
C5_Original ==
    [][ /\ (\E stage \in {"fetch", "mono", "translateStereo", "translateMono",
                          "scoring"} : NewlyFailed(stage)) => pc' = "Aborted"
        /\ pc = "Aborted" => made' = made ]_vars

\* C5 amended: a failure of the audio fetch, the mono transcription, the mono
\* translation or the scoring puts the invocation in Aborted, where it stays
\* and starts no mono transcription, translation or scoring request; a
\* failure of the stereo translation, like one of the stereo transcription,
\* starts the mono transcription instead.
C5_TerminalFailures ==
    [][ /\ (\E stage \in {"fetch", "mono", "translateMono", "scoring"} :
               NewlyFailed(stage)) => pc' = "Aborted"
        /\ (\E stage \in StereoFailures : NewlyFailed(stage))
               => pc' = "TranscribingMono"
        /\ pc = "Aborted" =>
              /\ pc' = "Aborted"
              /\ \A k \in {"download", "separate", "mono", "translateStereo",
                           "translateMono", "score"} : made'[k] = made[k] ]_vars

C5_Witness ==
    /\ pc = "Aborted"
    /\ failed = {"translateStereo", "translateMono"}

\* C6 as claimed: past separation, exactly one of "a channel pair was
\* produced" and "the mono path was taken" holds.
C6_Original ==
    PastSeparation => ((sep = "pair") # MonoTaken)

\* C6 amended: past separation at least one of the two holds, and both hold
\* exactly when a pair was produced and the stereo branch then failed.
C6_PairOrMono ==
    PastSeparation =>
        /\ (sep = "pair" \/ MonoTaken)
        /\ (sep = "pair" /\ MonoTaken) <=> (failed \cap StereoFailures # {})

C6_Witness ==
    /\ sep = "pair"
    /\ MonoTaken
    /\ pc = "Done"

C8_AttemptsBounded == rMade <= rMax

C8_Witness ==
    /\ rMax = MAX_RETRIES
    /\ rMade = MAX_RETRIES
    /\ rCall.st = "thrown"
    /\ isRetryable(rLastErr)

DelayCap(class) == IF class = "rateLimit" THEN RATE_LIMIT_CAP ELSE GENERIC_CAP

\* C9 as claimed: within one callWithRetry call every delay is at least the
\* delay before it, and none exceeds its cap.
C9_Original ==
    /\ \A i \in 2..Len(rDelays) : rDelays[i] >= rDelays[i - 1]
    /\ \A i \in 1..Len(rDelays) : rDelays[i] <= DelayCap(rErrs[i])

\* C9 amended: within one callWithRetry call a delay is shorter than the
\* delay before it only when that one followed a rate-limit response and this
\* one follows another retryable error; no delay exceeds its cap.
C9_DelaysNonDecreasingPerClass ==
    /\ \A i \in 2..Len(rDelays) :
          \/ rDelays[i] >= rDelays[i - 1]
          \/ (rErrs[i - 1] = "rateLimit" /\ rErrs[i] = "other")
    /\ \A i \in 1..Len(rDelays) : rDelays[i] <= DelayCap(rErrs[i])

C9_Witness ==
    /\ Len(rDelays) >= 5
    /\ rErrs[1] = "other" /\ rErrs[2] = "rateLimit" /\ rErrs[3] = "other"
    /\ rDelays[3] < rDelays[2]
    /\ rErrs[4] = "rateLimit"
    /\ rErrs[5] = "other" /\ rDelays[5] = GENERIC_CAP

\* C10: the delay waited after a rate-limit response is strictly longer than
\* the delay another retryable error gets at the same attempt number, and the
\* rate-limit cap is above the generic cap.
C10_RateLimitWaitsLonger ==
    /\ RATE_LIMIT_CAP > GENERIC_CAP
    /\ \A i \in 1..Len(rDelays) :
          IF rErrs[i] = "rateLimit"
          THEN rDelays[i] > GenericDelay(i)
          ELSE rDelays[i] < RateLimitDelay(i)

C10_Witness ==
    /\ Len(rDelays) >= 5
    /\ rErrs[5] = "rateLimit"
    /\ rDelays[5] = RATE_LIMIT_CAP
    /\ rErrs[1] = "rateLimit"

\* The class of an error in the terms of the error taxonomy: what the error
\* is, told from its status first and its code and message otherwise.
ErrorKind(error) ==
    IF error.status = 429 THEN "rateLimit"
    ELSE IF error.status >= 500 THEN "serverError"
    ELSE IF error.status >= 400 THEN "clientError"
    ELSE IF error.code = "ECONNABORTED" THEN "timeout"
    ELSE IF error.code = "ENOTFOUND" THEN "dnsFailure"
    ELSE IF error.code = "ECONNRESET" \/ error.hangup THEN "connectionReset"
    ELSE "other"

RetryableKinds ==
    {"timeout", "dnsFailure", "connectionReset", "rateLimit", "serverError"}

\* C11: a failed attempt is followed by a wait (and so by another attempt)
\* exactly when its error is a timeout, a DNS failure, a connection reset, a
\* 429 or a status of 500 or more and attempts remain; any other error is
\* rethrown at once, with no wait recorded and no request made afterwards.
C11_RetriesExactlyRetryable ==
    [][ /\ (rCall.st = "inflight" /\ rCall'.st \in {"wait", "thrown"}) =>
              /\ (rCall'.st = "wait") <=>
                    (ErrorKind(rLastErr') \in RetryableKinds
                       /\ rCall.attempt < rMax)
              /\ rCall'.st = "thrown" => (rDelays' = rDelays /\ rMade' = rMade)
              /\ ErrorKind(rLastErr') \notin RetryableKinds =>
                    (rCall'.st = "thrown" /\ rMade' = rCall.attempt)
        /\ rCall.st = "thrown" => (rCall' = rCall /\ rMade' = rMade) ]_vars

C11_Witness ==
    /\ rMax = MAX_RETRIES
    /\ rCall = [st |-> "thrown", attempt |-> 2]
    /\ rMade = 2
    /\ Len(rDelays) = 1
    /\ rErrs = <<"other">>
    /\ rLastErr = Err("ERR_BAD_REQUEST", FALSE, 404)

RepairFns == {"repairAndTranslate", "repairAndTranslateMono"}

\* C12: repairAndTranslate and repairAndTranslateMono return a
\* {manager, client} result for every response body; none makes them throw.
C12_Original == parsed.fn \in RepairFns => parsed.st = "returned"

\* The well-formed objects embedded in a content, by position.
ObjectSpans(content) ==
    {sp \in (1..Len(content)) \X (1..Len(content)) :
        sp[1] < sp[2] /\ IsObjectText(SubSeq(content, sp[1], sp[2]))}
HasObject(content) == ObjectSpans(content) # {}
FirstObject(content) ==
    LET sp == CHOOSE s \in ObjectSpans(content) :
                  \A t \in ObjectSpans(content) : s[1] <= t[1]
    IN  SubSeq(content, sp[1], sp[2])
HasJson(content) ==
    HasObject(content) \/ \E i \in 1..Len(content) : content[i] \in {"null", "[]"}
Fenced(content) ==
    /\ Len(content) >= 4
    /\ content[1] \in {"fence_json", "fence"}
    /\ content[Len(content)] = "fence"
    /\ IsObjectText(SubSeq(content, 2, Len(content) - 1))
CommentaryBefore(content) ==
    \E i \in 2..Len(content) :
        /\ \A k \in 1..(i - 1) : content[k] = "w"
        /\ IsObjectText(SubSeq(content, i, Len(content)))

GivesObject(object) ==
    /\ parsed.st = "returned"
    /\ parsed.manager = IF Len(object) > 2 THEN "M" ELSE ""
    /\ parsed.client = IF Len(object) > 2 THEN "C" ELSE ""
GivesRaw ==
    /\ parsed.st = "returned"
    /\ parsed.manager =
          IF parsed.fn = "repairAndTranslate" THEN "adminRawText" ELSE "rawText"
    /\ parsed.client =
          IF parsed.fn = "repairAndTranslate" THEN "clientRawText" ELSE ""

\* C13: of a response with content, the Repairer's extraction gives (a) the
\* object when the content is one JSON object, (b) the object inside when the
\* content is a fenced object, (c) the first embedded well-formed object when
\* the content holds one, whatever braces or objects follow, and (d) the raw
\* text passed through when the content holds no JSON.
C13_Original ==
    (parsed.fn \in RepairFns /\ response.choices /\ response.content # <<>>) =>
        LET c == response.content
        IN  /\ IsObjectText(c) => GivesObject(c)
            /\ Fenced(c) => GivesObject(SubSeq(c, 2, Len(c) - 1))
            /\ HasObject(c) => GivesObject(FirstObject(c))
            /\ ~HasJson(c) => GivesRaw

\* A content from which one of the three tiers extracts an object: the direct
\* parse, the parse after the fence markers are stripped, or the first
\* well-formed braced substring.
Extractable(content) ==
    \/ IsObjectText(content)
    \/ IsObjectText(stripFences(content))
    \/ HasObject(content)

\* C14: analyzeCall returns the embedded object when the response is a bare
\* object, a fenced object or an object preceded by commentary, and it fails
\* only for a response from which no tier extracts an object.
C14_Original ==
    parsed.fn = "analyzeCall" =>
        LET c == response.content
        IN  /\ (response.choices
                  /\ (IsObjectText(c) \/ Fenced(c) \/ CommentaryBefore(c))) =>
                   /\ parsed.st = "returned"
                   /\ parsed.value = JsonValue("object", Len(FirstObject(c)) > 2)
            /\ parsed.st = "thrown" => ~(response.choices /\ Extractable(c))

PastTranscription == pc \in {"SavingTranscript", "Scoring", "SavingScore", "Done"}

\* The stereo branch has both raw texts and their total is under 15
\* characters whatever the lengths inside the classes (two "short" texts may
\* total 15 or more and are left out).
StereoTotalShort ==
    /\ sep = "pair"
    /\ ~MonoTaken
    /\ \A r \in Roles : chan[r].st = "returned"
    /\ <<chan["manager"].raw, chan["client"].raw>> \in
          {<<"empty", "empty">>, <<"empty", "short">>, <<"short", "empty">>}

\* The mono raw text is under 15 characters.
MonoShort == MonoTaken /\ rawMono \in {"empty", "short"}

\* C15: when the raw text is under 15 characters in total, on the stereo path
\* or on the mono path, no translation request of that path is made and the
\* transcript returned has exactly one block.
C15_Original ==
    /\ StereoTotalShort =>
          /\ made["translateStereo"] = 0
          /\ PastTranscription => Len(formatted) = 1
    /\ MonoShort =>
          /\ made["translateMono"] = 0
          /\ PastTranscription => Len(formatted) = 1

\* C16: when the raw text is under 15 characters, the invocation makes no
\* scoring request (so that a score row, if any, is not made of an answer of
\* the model but is the fixed short-call report).
C16_Original ==
    (StereoTotalShort \/ MonoShort) => made["score"] = 0

TwoBlockShapes == {<<>>, <<"manager">>, <<"client">>, <<"manager", "client">>}

\* C18 as claimed: for a source probed with fewer than 2 channels no
\* extraction runs, no per-channel request is made, the mono transcription
\* is one callWithRetry call, and the transcript returned is the Repairer's
\* result as a manager block and a client block.
C18_Original ==
    sep = "null" =>
        /\ extractions = 0
        /\ \A r \in Roles : made[r] = 0
        /\ made["mono"] \in 1..MAX_RETRIES
        /\ pc = "TranscribingMono" => seqCall.attempt = made["mono"]
        /\ PastTranscription =>
              (made["translateMono"] >= 1 /\ formatted = <<"manager", "client">>)

\* C18 amended: the same, except that the Repairer is called only for a raw
\* text of 15 characters or more, its result then giving at most one manager
\* block followed by at most one client block, and that a shorter raw text
\* gives one manager block without the Repairer.
C18_MonoSourceRunsMonoOnce ==
    sep = "null" =>
        /\ extractions = 0
        /\ \A r \in Roles : made[r] = 0
        /\ made["mono"] \in 1..MAX_RETRIES
        /\ pc = "TranscribingMono" => seqCall.attempt = made["mono"]
        /\ PastTranscription =>
              IF rawMono = "long"
              THEN made["translateMono"] >= 1 /\ formatted \in TwoBlockShapes
              ELSE made["translateMono"] = 0 /\ formatted = <<"manager">>

C18_Witness ==
    /\ sep = "null"
    /\ pc = "Done"
    /\ made["mono"] = 2
    /\ rawMono = "long"
    /\ formatted = <<"manager", "client">>

\* C19: when splitStereoChannels has returned or thrown, none of the three
\* temporary files it may have created is left.
C19_NoTempFileRemains ==
    splitOut.st = "exited" =>
        /\ splitOut.created \subseteq TempFiles
        /\ splitOut.files = {}

C19_Witness ==
    /\ splitOut.exit = "threw"
    /\ splitIn.right = "fail"
    /\ splitOut.created = TempFiles
    /\ splitOut.files = {}

\* The mean of six integer scores, rounded to the nearest integer.
RoundedMean(b) == (2 * (b[1] + b[2] + b[3] + b[4] + b[5] + b[6]) + 6) \div 12

RowNumbers ==
    /\ scoreRow.total_score.type = "number"
    /\ \A i \in Blocks6 : scoreRow.blocks[i].type = "number"

\* C20: the overall score of the row written for a finished invocation is the
\* rounded mean of the row's six criterion scores, whatever overall value the
\* model returned.
C20_Original ==
    scoreRow # NoRow =>
        /\ RowNumbers
        /\ scoreRow.total_score.tenths =
              10 * RoundedMean([i \in Blocks6 |-> scoreRow.blocks[i].tenths \div 10])

IntegerScore(x) == x.type = "number" /\ x.tenths \in {10 * n : n \in 0..100}

\* C21: the overall score and the six criterion scores of the row written
\* are integers of 0..100, whatever the score fields of the object
\* analyzeCall returned hold.
C21_Original ==
    scoreRow # NoRow =>
        /\ IntegerScore(scoreRow.total_score)
        /\ \A i \in Blocks6 : IntegerScore(scoreRow.blocks[i])

C23_Original ==
    transcript.st = "returned" =>
        \A i \in 1..Len(transcript.formatted) :
            /\ transcript.formatted[i].text.len > 0
            /\ ~transcript.formatted[i].text.pad

\* C24: the audio is requested at most once in an invocation and exactly
\* once when the call has a recording; when the download fails the
\* invocation is aborted with no second download, no separation, no
\* transcription, translation or scoring request, and nothing stored.
C24_DownloadOnceNoRetry ==
    /\ made["download"] <= 1
    /\ pc \notin {"ReadingCall", "Aborted"} => made["download"] = 1
    /\ "audio" \in failed => made["download"] = 0
    /\ "fetch" \in failed =>
          /\ pc = "Aborted"
          /\ made = [k \in Kinds |-> IF k = "download" THEN 1 ELSE 0]
          /\ sep = "notrun" /\ extractions = 0
          /\ ~dbTranscript.saved /\ dbScore = "none"

C24_Witness ==
    /\ pc = "Aborted"
    /\ failed = {"fetch"}
    /\ made["download"] = 1

\* C25: the scoring request goes out only when the transcript of the same
\* invocation has been returned and stored, a score is stored only when the
\* scoring call of the invocation has returned an object, and the requests
\* of a stage are made only after those of the stages before it.
C25_StagesRunForward ==
    /\ made["score"] > 0 =>
          /\ dbTranscript = [saved |-> TRUE, blocks |-> formatted]
          /\ pc \in {"Scoring", "SavingScore", "Done", "Aborted"}
    /\ ~PastTranscription /\ pc # "Aborted" => ~dbTranscript.saved
    /\ dbScore = "saved" =>
          /\ pc = "Done"
          /\ made["score"] \in 1..MAX_RETRIES
          /\ "scoring" \notin failed
    /\ pc = "SavingScore" => (made["score"] >= 1 /\ "scoring" \notin failed)
    /\ made["separate"] > 0 => made["download"] = 1
    /\ \A k \in {"manager", "client"} : made[k] > 0 => sep = "pair"
    /\ made["mono"] > 0 => made["download"] = 1
    /\ made["translateStereo"] > 0 =>
          \A r \in Roles : chan[r].st = "returned"
    /\ made["translateMono"] > 0 => rawMono = "long"

C25_Witness ==
    /\ pc = "Done"
    /\ dbScore = "saved"
    /\ made["score"] = 2
    /\ made["translateStereo"] = 1
    /\ made["translateMono"] = 0

\* C27 as claimed: for a non-empty list of blocks the dialogue text has
\* exactly one line per block, in list order, made of the label of the
\* block's role and the block's text; only for an empty or missing list is
\* it the plain transcript.
C27_Original ==
    dialog.st = "sent" =>
        IF given.present /\ given.formatted # <<>>
        THEN /\ Len(dialog.lines) = Len(given.formatted)
             /\ \A i \in 1..Len(given.formatted) :
                   /\ dialog.lines[i].label =
                         (IF given.formatted[i].role = "manager"
                          THEN "ADMINISTRATOR" ELSE "PATIENT")
                   /\ <<dialog.lines[i].text>> = given.formatted[i].text
        ELSE dialog.lines = [k \in 1..Len(given.transcript) |->
                                [label |-> "", text |-> given.transcript[k]]]

\* The lines of the dialogue text that carry a label, in order.
LabelledLines == {k \in 1..Len(dialog.lines) : dialog.lines[k].label # ""}
LinesBefore(i) ==
    Cardinality(UNION {{j} \X (1..Len(given.formatted[j].text)) :
                          j \in 1..(i - 1)})

\* C27 amended: for a non-empty list of blocks the dialogue text has exactly
\* one labelled entry per block, in list order: the entry of a block starts
\* with the label of its role and the first line of its text and goes on
\* with the other lines of the text, unlabelled, so that it is a single line
\* exactly when the text has no line break; only for an empty or missing
\* list is the dialogue text the plain transcript.
C27_OneEntryPerBlock ==
    dialog.st = "sent" =>
        IF given.present /\ given.formatted # <<>>
        THEN /\ Cardinality(LabelledLines) = Len(given.formatted)
             /\ Len(dialog.lines) = LinesBefore(Len(given.formatted) + 1)
             /\ \A i \in 1..Len(given.formatted) :
                  \A k \in 1..Len(given.formatted[i].text) :
                     dialog.lines[LinesBefore(i) + k] =
                        [label |-> IF k > 1 THEN ""
                                   ELSE IF given.formatted[i].role = "manager"
                                        THEN "ADMINISTRATOR" ELSE "PATIENT",
                         text |-> given.formatted[i].text[k]]
        ELSE dialog.lines = [k \in 1..Len(given.transcript) |->
                                [label |-> "", text |-> given.transcript[k]]]

C27_Witness ==
    /\ dialog.st = "sent"
    /\ given.present
    /\ Len(given.formatted) = 3
    /\ given.formatted[1] = [role |-> "client", text |-> <<"b", "c">>]
    /\ given.formatted[2].role = "manager"
    /\ Len(dialog.lines) = 5
    /\ dialog.lines[2] = [label |-> "", text |-> "c"]

Ended(i) == inv[i].pc \in PastGuard /\ inv'[i].pc \in {"Done", "Failed"}

\* C29: processingCalls holds exactly the identifiers of the invocations
\* between the guard and their end; an invocation that passed the guard
\* takes its identifier out when it ends, by its return or by the failure of
\* any stage, and an invocation for a call with none in flight is accepted.
C29_InFlightSetIsExact ==
    /\ [](processingCalls = {inv[i].callId : i \in {j \in Slots : inv[j].pc \in PastGuard}})
    /\ [][ \A i \in Slots :
             /\ Ended(i) => inv[i].callId \notin processingCalls'
             /\ (inv[i].pc = "Idle" /\ inv'[i].pc # "Idle"
                   /\ InFlightFor(inv'[i].callId) = {})
                  => (inv'[i].pc = "ReadingCall"
                        /\ inv'[i].callId \in processingCalls') ]_vars

C29_Witness ==
    \E i, j \in Slots :
        /\ inv[i].callId = inv[j].callId
        /\ inv[i].pc = "Failed"
        /\ inv[i].did = {"read", "fetch", "transcribe", "saveTranscript", "score"}
        /\ inv[j].pc = "Scoring"

\* C30: an invocation rejected by the guard leaves processingCalls as it
\* was, and while an invocation for a call is in flight every further
\* invocation for that call is rejected, whatever was rejected before.
C30_RejectionKeepsIdentifier ==
    [][ \A i \in Slots :
          (inv[i].pc = "Idle" /\ inv'[i].pc # "Idle") =>
             /\ inv'[i].pc = "Rejected" =>
                   /\ processingCalls' = processingCalls
                   /\ inv'[i].callId \in processingCalls'
                   /\ InFlightFor(inv'[i].callId) # {}
             /\ InFlightFor(inv'[i].callId) # {} =>
                   /\ inv'[i].pc = "Rejected"
                   /\ \A j \in InFlightFor(inv'[i].callId) : inv'[j] = inv[j] ]_vars

C30_Witness ==
    \E i, j, k \in Slots :
        /\ i # j /\ j # k /\ i # k
        /\ inv[i].callId = inv[j].callId /\ inv[j].callId = inv[k].callId
        /\ inv[i].pc = "Scoring"
        /\ inv[j].pc = "Rejected"
        /\ inv[k].pc = "Rejected"

\* ---------------------------------------------------------------------------
\* C32
\* ---------------------------------------------------------------------------

\* The persisted transcript and score of the call are what they were when
\* the invocation started.
TranscriptAsBefore == dbTranscript = [saved |-> FALSE, blocks |-> <<>>]
ScoreAsBefore == dbScore = "none"

\* C32 (as stated): an invocation of analyzeCallById that ends in failure
\* leaves the call's persisted transcript and score exactly as they were
\* before the invocation started.
C32_Original ==
    pc = "Aborted" => TranscriptAsBefore /\ ScoreAsBefore

\* C32 (amended): an invocation that ends in failure leaves the persisted
\* score as it was before the invocation started, and the persisted
\* transcript too unless the failure is that of the scoring stage, which
\* runs after the new transcript was written.
C32_FailureKeepsScore ==
    pc = "Aborted" =>
        /\ ScoreAsBefore
        /\ "scoring" \notin failed => TranscriptAsBefore

\* An invocation failed in translation, after all the transcription work.
C32_Witness ==
    /\ pc = "Aborted"
    /\ failed \cap {"translateStereo", "translateMono"} # {}
    /\ TranscriptAsBefore
    /\ ScoreAsBefore

\* ---------------------------------------------------------------------------
\* C33
\* ---------------------------------------------------------------------------

\* C33: callWithRetry returns only after a successful attempt; when it
\* throws, the request has been made at least once and no wait follows the
\* last attempt (one wait between two consecutive attempts, none after);
\* and it never completes normally without a successful attempt, whatever
\* maxRetries is, 0 included.
C33_Original ==
    /\ rCall.st = "returned" => rMade >= 1
    /\ rCall.st = "thrown" => (rMade >= 1 /\ Len(rDelays) = rMade - 1)
    /\ rCall.st # "undefined"

\* ---------------------------------------------------------------------------
\* C34
\* ---------------------------------------------------------------------------

\* The speech recognition returned some text: on a channel at least of the
\* stereo path, for the whole recording on the mono path.
RawTextHeard ==
    \/ heard.path = "stereo" /\
          (Truthy(trim(heard.first)) \/ Truthy(trim(heard.second)))
    \/ heard.path = "mono" /\ Truthy(trim(heard.first))

\* C34: when the raw transcribed text is not empty and transcribeAudio
\* returns, the returned transcript has at least one block and a plain text
\* that is not empty, whatever well-formed JSON the translation returned.
C34_Original ==
    (transcript.st = "returned" /\ RawTextHeard) =>
        /\ Len(transcript.formatted) >= 1
        /\ Truthy(transcript.plain)

\* ---------------------------------------------------------------------------
\* C35
\* ---------------------------------------------------------------------------

RetriedKinds == Kinds \ {"download", "separate"}
Terminated == pc \in {"Done", "Aborted"}

\* The requests of each kind made so far: one download, one separation, at
\* most MAX_RETRIES of any other kind, and all the requests of a kind are
\* the attempts of one call (the attempt number of the call that is running
\* is the number of requests of its kind).
RequestsWithinBounds ==
    /\ made["download"] <= 1
    /\ made["separate"] <= 1
    /\ \A k \in RetriedKinds : made[k] <= MAX_RETRIES
    /\ \A r \in Roles :
          chan[r].st \in {"inflight", "wait"} => chan[r].attempt = made[r]
    /\ seqCall.st \in {"inflight", "wait"} => seqCall.attempt = made[SeqKind]

\* The stereo transcription is entered from the separation only, the mono
\* transcription only when no mono request was made before.
PathsEnteredOnce ==
    /\ (pc # "TranscribingStereo" /\ pc' = "TranscribingStereo") =>
          (pc = "Fetching" /\ \A r \in Roles : made[r] = 0)
    /\ (pc # "TranscribingMono" /\ pc' = "TranscribingMono") =>
          made["mono"] = 0
    /\ Terminated => pc' = pc

\* C35: when every external call returns or fails in finite time, the
\* invocation ends in Done or Aborted, having made at most one download, one
\* separation, one call of at most 3 attempts for each channel, for the mono
\* transcription, for the translation of each path and for the scoring; the
\* mono path is entered at most once and the stereo path is never re-entered.
C35_TerminatesWithinBounds ==
    /\ []RequestsWithinBounds
    /\ [][PathsEnteredOnce]_vars
    /\ <>Terminated

\* An invocation ended after exhausting a channel's attempts and using all
\* the attempts of the mono transcription, its translation and the scoring.
C35_Witness ==
    /\ pc = "Done"
    /\ made["download"] = 1 /\ made["separate"] = 1
    /\ made["manager"] = MAX_RETRIES
    /\ made["mono"] = MAX_RETRIES
    /\ made["translateMono"] = MAX_RETRIES
    /\ made["score"] = MAX_RETRIES

\* ---------------------------------------------------------------------------
\* C36
\* ---------------------------------------------------------------------------

\* C36: invocations running concurrently in one process do not interfere
\* through the separator's temporary files: no run of splitStereoChannels
\* reads, overwrites or deletes a file that another run still in progress
\* wrote, so each run in progress finds the files it created as it wrote
\* them, although two runs may derive the same names.
C36_NoInterferenceThroughTempFiles ==
    \A s \in Slots :
        /\ ~separations[s].foreign
        /\ InProgress(s) =>
              \A f \in separations[s].created :
                  tmpFiles[<<separations[s].ts, f>>] = s

\* Two invocations have used the same names: one has left, the other has
\* both extracted files under those names.
C36_Witness ==
    \E s, t \in Slots :
        /\ s # t
        /\ separations[s].pc = "exited"
        /\ separations[t].pc = "right"
        /\ separations[s].ts = separations[t].ts
        /\ separations[t].created = TempFiles

\* ---------------------------------------------------------------------------
\* C31
\* ---------------------------------------------------------------------------

\* C31: a request rejected as a duplicate, whichever route it came through,
\* has changed neither the stored transcript nor the stored score of its
\* call.
C31_Original ==
    \A i \in Slots :
        inv[i].pc = "Rejected" =>
            inv[i].did \cap {"deletedScore", "clearedTranscript"} = {}

\* ---------------------------------------------------------------------------
\* C37
\* ---------------------------------------------------------------------------

\* The call is stored with a recording, has no score and is not being
\* analysed: its analysis failed, or was rejected as a duplicate.
AwaitsAnalysis(callId) ==
    /\ db[callId].audio = "url"
    /\ ~db[callId].score
    /\ callId \notin processingCalls

\* C37: every synced call that has a recording and no score is eventually
\* analysed again by the periodic sync, as long as it stays inside the sync
\* window.
C37_Original ==
    \A callId \in CallIds :
        AwaitsAnalysis(callId) ~>
            (callId \in processingCalls \/ db[callId].score)

====
